---- MODULE Spec2Model ----
(***************************************************************************)
(* A model of auto_test: the analysis-and-synthesis pipeline that turns    *)
(* the function signatures of a Rust project into skeleton test files.     *)
(*                                                                         *)
(* Text is modelled as text: type signatures, paths and rendered test      *)
(* source are strings, and the string operations of the code (trim,        *)
(* contains, starts_with, split, replace) are operators over them.         *)
(***************************************************************************)
EXTENDS Integers, Sequences, FiniteSets, TLC

(***************************************************************************)
(* Bounds of the model.                                                    *)
(***************************************************************************)
\* nesting depth of the wrapper shapes in the enumerated type signatures
MaxDepth == 1
\* number of Value Synthesizer calls made after the first one
MaxCalls == 2
\* largest parallel_chunk_size the policy is drawn from
MaxChunk == 3
\* number of runs made on one project
MaxRuns == 2

VARIABLES
    config,        \* the generation policy (Config), read-only during a run
    intern_pool,   \* INTERN_POOL: type text -> pooled Arc, empty before its init
    arcs,          \* the live Arc<str> allocations: address -> text
    probe,         \* the first Value Synthesizer call of a session
    cur,           \* the latest Value Synthesizer call of a session
    ncalls,        \* calls made after the first one
    pc,            \* position of generate_tests_for_project_with_config
    project_path,  \* the project root, as the caller spelled it
    tree,          \* the source tree under the root, in walk order
    walker,        \* the walked paths not yet visited by the analysis loop
    processed_files, \* the paths the analysis loop has analyzed
    functions,     \* project.functions
    chunk_state,   \* per chunk of par_chunks: "pending", "running" or "done"
    chunk_out,     \* per chunk: the output of its worker
    completed,     \* the chunks in the order their workers finished
    results,       \* the collected Vec<Result<TestFile>>
    test_files,    \* the TestFiles generate_with_config returns
    written,       \* how many of test_files have been persisted
    disk,          \* the files written: path -> content
    warnings,      \* the "Warning:" lines written to the diagnostic channel
    temp,          \* the NamedTempFile of the write in progress: its path, if any
    dirs,          \* the directories created under the root
    history,       \* the TestFiles of the completed runs on the project
    config_file,   \* the file given to Config::load_from_file
    pv             \* a param_value call: its argument, frames and result

synth_vars == <<probe, cur, ncalls>>

run_vars == <<pc, project_path, tree, walker, processed_files, functions, chunk_state,
              chunk_out, completed, results, test_files, written, disk, warnings>>

fs_vars == <<temp, dirs, history>>

unit_vars == <<config_file, pv>>

vars == <<config, intern_pool, arcs, synth_vars, run_vars, fs_vars, unit_vars>>

(***************************************************************************)
(* String operations of the Rust standard library used by the code.        *)
(***************************************************************************)
CharAt(s, i) == SubSeq(s, i, i)

starts_with(s, p) == Len(p) <= Len(s) /\ SubSeq(s, 1, Len(p)) = p

ends_with(s, p) == Len(p) <= Len(s) /\ SubSeq(s, Len(s) - Len(p) + 1, Len(s)) = p

contains(s, p) ==
    \E t \in {s} : \E i \in 1..(Len(t) - Len(p) + 1) : SubSeq(t, i, i + Len(p) - 1) = p

\* position of the first occurrence of p in s, 0 when there is none
find(s, p) ==
    CHOOSE k \in {IF \E i \in 1..(Len(t) - Len(p) + 1) : SubSeq(t, i, i + Len(p) - 1) = p
                  THEN CHOOSE i \in 1..(Len(t) - Len(p) + 1) :
                          /\ SubSeq(t, i, i + Len(p) - 1) = p
                          /\ \A j \in 1..(i - 1) : SubSeq(t, j, j + Len(p) - 1) # p
                  ELSE 0 : t \in {s}} : TRUE

is_whitespace(c) == c \in {" ", "\t", "\n"}

RECURSIVE trim_start(_)
trim_start(s) ==
    IF Len(s) > 0 /\ is_whitespace(CharAt(s, 1)) THEN trim_start(SubSeq(s, 2, Len(s))) ELSE s

RECURSIVE trim_end(_)
trim_end(s) ==
    IF Len(s) > 0 /\ is_whitespace(CharAt(s, Len(s)))
    THEN trim_end(SubSeq(s, 1, Len(s) - 1))
    ELSE s

trim(s) == trim_end(trim_start(s))

RECURSIVE trim_start_matches(_, _)
trim_start_matches(s, p) ==
    IF Len(p) > 0 /\ starts_with(s, p)
    THEN trim_start_matches(SubSeq(s, Len(p) + 1, Len(s)), p)
    ELSE s

RECURSIVE trim_end_matches(_, _)
trim_end_matches(s, p) ==
    IF Len(p) > 0 /\ ends_with(s, p)
    THEN trim_end_matches(SubSeq(s, 1, Len(s) - Len(p)), p)
    ELSE s

\* s.split(sep): the pieces of s between the occurrences of sep
RECURSIVE split(_, _)
split(s, sep) ==
    LET i == find(s, sep)
    IN  IF i = 0
        THEN <<s>>
        ELSE <<SubSeq(s, 1, i - 1)>> \o split(SubSeq(s, i + Len(sep), Len(s)), sep)

RECURSIVE join(_, _)
join(parts, sep) ==
    IF Len(parts) = 0 THEN ""
    ELSE IF Len(parts) = 1 THEN parts[1]
    ELSE parts[1] \o sep \o join(Tail(parts), sep)

replace(s, from, to) == join(split(s, from), to)

UpperCase ==
    {"A", "B", "C", "D", "E", "F", "G", "H", "I", "J", "K", "L", "M",
     "N", "O", "P", "Q", "R", "S", "T", "U", "V", "W", "X", "Y", "Z"}

is_uppercase(c) == c \in UpperCase

(***************************************************************************)
(* config.rs: the generation policy.                                       *)
(***************************************************************************)
NoMappings == [k \in {} |-> ""]

\* Config::get_type_mapping: the HashMap lookup; None is modelled as
\* absence from the domain
has_type_mapping(type_mappings, type_name) == type_name \in DOMAIN type_mappings

get_type_mapping(type_mappings, type_name) == type_mappings[type_name]

(***************************************************************************)
(* rust_gen.rs: the Value Synthesizer.                                     *)
(***************************************************************************)
\* Option<&str>
None == [some |-> FALSE, val |-> ""]

Some(v) == [some |-> TRUE, val |-> v]

\* strip_generic: the text between "outer<" and the closing ">", None when
\* s has not that shape
strip_generic(s0, outer) ==
    LET s == trim(s0)
        prefix == outer \o "<"
    IN  IF starts_with(s, prefix) /\ ends_with(s, ">")
        THEN Some(SubSeq(s, Len(prefix) + 1, Len(s) - 1))
        ELSE None

RECURSIVE param_value(_)
param_value(typ) ==
    LET t == trim(typ)
    IN  IF t = "String" THEN "\"test\".to_string()"
        ELSE IF t = "&str" THEN "\"test\""
        ELSE IF t \in {"usize", "u32", "u64", "i32", "i64"} THEN "0"
        ELSE IF t = "bool" THEN "false"
        ELSE IF t = "()" THEN "()"
        ELSE IF strip_generic(t, "Option").some
            THEN "Some(" \o param_value(strip_generic(t, "Option").val) \o ")"
        ELSE IF strip_generic(t, "Result").some
            THEN "Ok(" \o param_value(trim(split(strip_generic(t, "Result").val, ",")[1]))
                 \o ")"
        ELSE IF strip_generic(t, "Vec").some
            THEN "vec![" \o param_value(strip_generic(t, "Vec").val) \o "]"
        ELSE IF starts_with(t, "&")
            THEN "{ let tmp = " \o param_value(trim(trim_start_matches(t, "&"))) \o "; &tmp }"
        ELSE IF Len(t) > 0 /\ is_uppercase(CharAt(t, 1)) THEN t \o "::default()"
        ELSE "Default::default()"

\* the override lookup made after the library types instead of first
smart_value_library_first(type_str0, type_mappings) ==
    LET type_str == trim(type_str0)
    IN  IF contains(type_str, "PathBuf") THEN "std::path::PathBuf::from(\".\")"
        ELSE IF contains(type_str, "Uuid") THEN "uuid::Uuid::new_v4()"
        ELSE IF contains(type_str, "Url")
            THEN "url::Url::parse(\"https://example.com\").unwrap()"
        ELSE IF contains(type_str, "DateTime") THEN "chrono::Utc::now()"
        ELSE IF has_type_mapping(type_mappings, type_str)
            THEN get_type_mapping(type_mappings, type_str)
        ELSE IF is_uppercase(IF Len(type_str) > 0 THEN CharAt(type_str, 1) ELSE " ")
            THEN type_str \o "::default()"
        ELSE param_value(type_str)

generate_smart_value_enhanced(type_str0, type_mappings) ==
    LET type_str == trim(type_str0)
    IN  IF has_type_mapping(type_mappings, type_str)
            THEN get_type_mapping(type_mappings, type_str)
        ELSE IF contains(type_str, "PathBuf") THEN "std::path::PathBuf::from(\".\")"
        ELSE IF contains(type_str, "Uuid") THEN "uuid::Uuid::new_v4()"
        ELSE IF contains(type_str, "Url")
            THEN "url::Url::parse(\"https://example.com\").unwrap()"
        ELSE IF contains(type_str, "DateTime") THEN "chrono::Utc::now()"
        ELSE IF is_uppercase(IF Len(type_str) > 0 THEN CharAt(type_str, 1) ELSE " ")
            THEN type_str \o "::default()"
        ELSE param_value(type_str)

(***************************************************************************)
(* models.rs: TypeIntern.  A TypeIntern is a handle on an Arc<str>; arcs   *)
(* maps the live allocations to their text.  INTERN_POOL is a OnceLock:    *)
(* empty until the first TypeIntern::new, read-only afterwards.            *)
(***************************************************************************)
common_types ==
    <<"String", "&str", "i32", "u32", "i64", "u64", "usize",
      "bool", "()", "Vec<T>", "Option<T>", "Result<T, E>",
      "PathBuf", "Uuid", "Url", "DateTime", "Config", "Args">>

Range(f) == {f[x] : x \in DOMAIN f}

\* the allocator: an address no live allocation uses
FreshArc(heap) == CHOOSE a \in 1..(Cardinality(DOMAIN heap) + 1) : a \notin DOMAIN heap

\* INTERN_POOL.get_or_init: the first call allocates one Arc per common type
get_or_init(pool, heap) ==
    IF DOMAIN pool # {}
    THEN [pool |-> pool, heap |-> heap]
    ELSE LET base == IF DOMAIN heap = {} THEN 0
                     ELSE CHOOSE a \in DOMAIN heap : \A b \in DOMAIN heap : b <= a
             n == Len(common_types)
         IN  [pool |-> [t \in Range(common_types) |->
                          base + (CHOOSE i \in 1..n : common_types[i] = t)],
              heap |-> [a \in DOMAIN heap \cup ((base + 1)..(base + n)) |->
                          IF a \in DOMAIN heap THEN heap[a] ELSE common_types[a - base]]]

\* a pool miss reuses the allocation of an earlier miss and overwrites its text
TypeInternNewReusingSlot(s, pool, heap) ==
    LET st == get_or_init(pool, heap)
        misses == DOMAIN st.heap \ Range(st.pool)
    IN  IF s \in DOMAIN st.pool
        THEN [typ |-> st.pool[s], pool |-> st.pool, heap |-> st.heap]
        ELSE LET a == IF misses # {} THEN CHOOSE b \in misses : TRUE ELSE FreshArc(st.heap)
             IN  [typ |-> a, pool |-> st.pool,
                  heap |-> [b \in DOMAIN st.heap \cup {a} |->
                              IF b = a THEN s ELSE st.heap[b]]]

\* the lookup of TypeIntern::new in the initialized pool st.pool: the pooled
\* handle on an exact match, the fresh allocation a holding s otherwise
pool_get_or_alloc(s, st, a) ==
    IF s \in DOMAIN st.pool
    THEN [typ |-> st.pool[s], pool |-> st.pool, heap |-> st.heap]
    ELSE [typ |-> a, pool |-> st.pool,
          heap |-> [b \in DOMAIN st.heap \cup {a} |-> IF b = a THEN s ELSE st.heap[b]]]

\* TypeIntern::new(s)
TypeInternNew(s, pool, heap) ==
    pool_get_or_alloc(s, get_or_init(pool, heap), FreshArc(get_or_init(pool, heap).heap))

\* TypeIntern::as_str
as_str(typ, heap) == heap[typ]

\* dropping a TypeIntern frees its Arc unless the pool or another live
\* handle still holds it
DropTypeIntern(typ, pool, heap, live) ==
    IF typ \in Range(pool) \cup live
    THEN heap
    ELSE [a \in DOMAIN heap \ {typ} |-> heap[a]]

(***************************************************************************)
(* rust_gen.rs: the Assertion Synthesizer and the Test Renderer.           *)
(* A FunctionInfo is [name, params, returns, file, is_async]; params is a  *)
(* sequence of ParamInfo [name, typ]; typ and returns are TypeInterns.     *)
(***************************************************************************)
Digits == <<"0", "1", "2", "3", "4", "5", "6", "7", "8", "9">>

\* Display of a usize
RECURSIVE to_string(_)
to_string(n) == IF n < 10 THEN Digits[n + 1] ELSE to_string(n \div 10) \o Digits[(n % 10) + 1]

generate_assertions_enhanced(return_type) ==
    LET t == trim(return_type)
    IN  IF t = "()"
            THEN "        // Function returns unit type - no assertion needed"
        ELSE IF starts_with(t, "Result<")
            THEN "        assert!(result.is_ok(), \"Function should succeed\");"
        ELSE IF starts_with(t, "Option<")
            THEN "        assert!(result.is_some(), \"Function should return Some value\");"
        ELSE IF starts_with(t, "Vec<")
            THEN "        assert!(!result.is_empty(), \"Function should return non-empty vector\");"
        ELSE IF t \in {"String", "&str"}
            THEN "        assert!(!result.is_empty(), \"Function should return non-empty string\");"
        ELSE IF \E num \in {"i32", "i64", "u32", "u64", "usize"} : contains(t, num)
            THEN "        assert!(result >= 0, \"Function should return non-negative number\");"
        ELSE IF \E num \in {"f32", "f64"} : contains(t, num)
            THEN "        assert!(!result.is_nan(), \"Function should return valid float\");"
        ELSE IF t = "bool"
            THEN "        // Boolean result - add specific assertion based on expected behavior"
        ELSE IF contains(t, "PathBuf") \/ contains(t, "&Path")
            THEN "        assert!(result.exists(), \"Function should return existing path\");"
        ELSE IF contains(t, "Uuid")
            THEN "        assert!(!result.is_nil(), \"Function should return valid UUID\");"
        ELSE IF contains(t, "Url")
            THEN "        assert!(result.scheme() != \"\", \"Function should return valid URL\");"
        ELSE "        // TODO: Add appropriate assertion for type: " \o t

\* the loop of generate_params_enhanced over params[i..]: <<arrange, names>>
RECURSIVE params_loop(_, _, _, _)
params_loop(params, i, heap, mappings) ==
    IF i > Len(params)
    THEN [arrange |-> "", names |-> <<>>]
    ELSE LET param_name == "param_" \o to_string(i - 1)
             value == generate_smart_value_enhanced(as_str(params[i].typ, heap), mappings)
             rest == params_loop(params, i + 1, heap, mappings)
         IN  [arrange |-> "        let " \o param_name \o " = " \o value \o ";\n"
                          \o rest.arrange,
              names |-> <<param_name>> \o rest.names]

generate_params_enhanced(params, heap, mappings) ==
    IF Len(params) = 0
    THEN [arrange |-> "        let project_path = \"/tmp/test_project\";",
          names |-> "project_path"]
    ELSE LET r == params_loop(params, 1, heap, mappings)
         IN  [arrange |-> r.arrange, names |-> join(r.names, ", ")]

\* the "let result = ..." line of the format string of render_test_enhanced
ActLine(full_fn_path, param_names, await_suffix) ==
    "        let result = " \o full_fn_path \o "(" \o param_names \o ")" \o await_suffix \o ";"

\* the async attribute without the awaited call
async_form_attribute_only(is_async) ==
    IF is_async
    THEN [test_attr |-> "#[tokio::test]", await_suffix |-> ""]
    ELSE [test_attr |-> "#[test]", await_suffix |-> ""]

\* "Handle async": the pair (test_attr, await_suffix)
async_form(is_async) ==
    IF is_async
    THEN [test_attr |-> "#[tokio::test]", await_suffix |-> ".await"]
    ELSE [test_attr |-> "#[test]", await_suffix |-> ""]

render_test_enhanced(func, heap, mappings) ==
    LET test_name == "test_" \o func.name \o "_integration"
        full_fn_path == "auto_test::generate_tests_for_project"
        p == generate_params_enhanced(func.params, heap, mappings)
        test_attr == async_form(func.is_async).test_attr
        await_suffix == async_form(func.is_async).await_suffix
        assertions == generate_assertions_enhanced(as_str(func.returns, heap))
    IN  "    " \o test_attr \o " fn " \o test_name \o "() {\n"
        \o "        // Arrange\n"
        \o p.arrange \o "\n"
        \o "\n"
        \o "        // Act\n"
        \o ActLine(full_fn_path, p.names, await_suffix) \o "\n"
        \o "\n"
        \o "        // Assert\n"
        \o assertions \o "\n"
        \o "    }"

module_path_from_file(file_path) ==
    LET path0 == replace(file_path, "\\", "/")
        path1 == IF starts_with(path0, "./src/") THEN SubSeq(path0, 7, Len(path0))
                 ELSE IF starts_with(path0, "src/") THEN SubSeq(path0, 5, Len(path0))
                 ELSE path0
        path2 == IF ends_with(path1, "/mod.rs") THEN trim_end_matches(path1, "/mod.rs")
                 ELSE trim_end_matches(path1, ".rs")
    IN  IF path1 = "lib.rs"
        THEN ""
        ELSE join(SelectSeq(split(path2, "/"), LAMBDA seg : seg # ""), "::")

test_file_name_from_module(module_path) ==
    IF module_path = ""
    THEN "integration_tests.rs"
    ELSE replace(module_path, "::", "_") \o "_tests.rs"

\* Path::join
PathJoin(base, rel) ==
    IF starts_with(rel, "/") THEN rel
    ELSE IF base = "" \/ ends_with(base, "/") THEN base \o rel
    ELSE base \o "/" \o rel

\* a TestFile is [path, content]
generate_test_for_func_with_config(func, heap, cfg, root) ==
    LET module_path == module_path_from_file(func.file)
        test_file_name == test_file_name_from_module(module_path)
        content == "use test_project::*;\n\n"
                   \o render_test_enhanced(func, heap, cfg.type_mappings) \o "\n"
        output_path == PathJoin(PathJoin(root, cfg.output_dir), test_file_name)
    IN  [path |-> output_path, content |-> content]

\* process_function_chunk: the chunk's functions in order
process_function_chunk(funcs, heap, cfg, root) ==
    [i \in 1..Len(funcs) |->
        generate_test_for_func_with_config(funcs[i], heap, cfg, root)]

\* a skipped function is one whose name is one of the skip substrings
should_skip_function_exact(cfg, function_name) ==
    \E i \in 1..Len(cfg.skip_functions) : function_name = cfg.skip_functions[i]

\* Config::should_skip_function
should_skip_function(cfg, function_name) ==
    \E i \in 1..Len(cfg.skip_functions) : contains(function_name, cfg.skip_functions[i])

(***************************************************************************)
(* rust_analyzer.rs: the Signature Extractor.                              *)
(* A parsed file is a sequence of items.  A fn item is [kind |-> "fn",     *)
(* vis, ident, inputs, output, asyncness] with vis, the input types and    *)
(* output as written in the source (output "" when none is declared); an   *)
(* input is [kind |-> "receiver"] or [kind |-> "typed", pat, ty], pat ""   *)
(* for a pattern that is no identifier.                                    *)
(***************************************************************************)
LowerCase ==
    {"a", "b", "c", "d", "e", "f", "g", "h", "i", "j", "k", "l", "m",
     "n", "o", "p", "q", "r", "s", "t", "u", "v", "w", "x", "y", "z"}

IdentChars == UpperCase \cup LowerCase \cup Range(Digits) \cup {"_"}

\* length of the identifier s starts with
RECURSIVE ident_len(_)
ident_len(s) ==
    IF Len(s) > 0 /\ CharAt(s, 1) \in IdentChars THEN 1 + ident_len(Tail(s)) ELSE 0

\* the characters the lexer reads as punctuation
PunctChars ==
    {"~", "!", "@", "#", "$", "%", "^", "&", "*", "-", "=", "+", "|", ";", ":", ",",
     "<", ".", ">", "/", "?", "'"}

\* to_token_stream().to_string(): the tokens of the source text separated
\* by one space, none after a punctuation joint to the next one ("::",
\* ">>", "'a") nor inside the delimiters of a parenthesized or bracketed
\* group
RECURSIVE token_string_from(_, _, _)
token_string_from(rest, out, glue) ==
    IF Len(rest) = 0 THEN out
    ELSE LET c == CharAt(rest, 1)
             sep == IF out = "" \/ glue THEN "" ELSE " "
             n == ident_len(rest)
         IN  IF is_whitespace(c) THEN token_string_from(Tail(rest), out, glue)
             ELSE IF c \in {"(", "["} THEN token_string_from(Tail(rest), out \o sep \o c, TRUE)
             ELSE IF c \in {")", "]"} THEN token_string_from(Tail(rest), out \o c, FALSE)
             ELSE IF n > 0
                 THEN token_string_from(SubSeq(rest, n + 1, Len(rest)),
                                        out \o sep \o SubSeq(rest, 1, n), FALSE)
             ELSE token_string_from(Tail(rest), out \o sep \o c,
                                    c = "'" \/ (Len(rest) > 1 /\ CharAt(rest, 2) \in PunctChars))

token_string(src) == token_string_from(src, "", FALSE)

\* the element type of a Type::Reference written "&T" or "&mut T"
reference_elem(ty) ==
    LET e == trim(SubSeq(ty, 2, Len(ty)))
    IN  IF starts_with(e, "mut ") THEN trim(SubSeq(e, 5, Len(e))) ELSE e

\* the typ_str of a typed parameter
param_typ_str(ty) ==
    IF starts_with(trim(ty), "&")
    THEN "&" \o token_string(reference_elem(trim(ty)))
    ELSE token_string(ty)

\* the returns_str of a signature
returns_str(output) == IF output = "" THEN "()" ELSE token_string(output)

\* the name and the type text recorded for one input
param_name(input) ==
    IF input.kind = "receiver" THEN "self"
    ELSE IF input.pat = "" THEN "_" ELSE input.pat

param_text(input) == IF input.kind = "receiver" THEN "Self" ELSE param_typ_str(input.ty)

\* params.push(p), ahead of what the rest of the loop pushes
push_param(p, rest) ==
    [params |-> <<p>> \o rest.params, pool |-> rest.pool, heap |-> rest.heap]

\* the parameter loop of extract_functions_from_ast over inputs[i..]
RECURSIVE extract_params(_, _, _, _)
RECURSIVE extract_param(_, _, _, _)
extract_param(inputs, i, name, t) ==
    push_param([name |-> name, typ |-> t.typ], extract_params(inputs, i + 1, t.pool, t.heap))

extract_params(inputs, i, pool, heap) ==
    IF i > Len(inputs)
    THEN [params |-> <<>>, pool |-> pool, heap |-> heap]
    ELSE extract_param(inputs, i, param_name(inputs[i]),
                       TypeInternNew(param_text(inputs[i]), pool, heap))

\* any visibility that starts with the pub keyword counts as public
is_public_any_pub(item) == starts_with(token_string(item.vis), "pub")

\* "is_public"
is_public(item) == token_string(item.vis) = "pub"

\* functions.push(f), ahead of what the rest of the loop pushes
push_function(f, rest) ==
    [functions |-> <<f>> \o rest.functions, pool |-> rest.pool, heap |-> rest.heap]

\* the FunctionInfo of a fn item, its parameters ps and return type ret extracted
function_info(item, file_path, ps, ret) ==
    [name |-> item.ident,
     params |-> ps.params,
     returns |-> ret.typ,
     file |-> file_path,
     is_async |-> item.asyncness]

\* the item loop of extract_functions_from_ast over items[i..]
RECURSIVE extract_functions_from(_, _, _, _, _, _)
RECURSIVE extract_function(_, _, _, _, _, _)
RECURSIVE extract_returns(_, _, _, _, _)
extract_function(items, i, file_path, cfg, ps, ret) ==
    push_function(function_info(items[i], file_path, ps, ret),
                  extract_functions_from(items, i + 1, file_path, cfg, ret.pool, ret.heap))

extract_returns(items, i, file_path, cfg, ps) ==
    extract_function(items, i, file_path, cfg, ps,
                     TypeInternNew(returns_str(items[i].output), ps.pool, ps.heap))

extract_functions_from(items, i, file_path, cfg, pool, heap) ==
    IF i > Len(items)
    THEN [functions |-> <<>>, pool |-> pool, heap |-> heap]
    ELSE IF \/ items[i].kind # "fn"
            \/ (~is_public(items[i]) /\ ~cfg.include_private)
            \/ should_skip_function(cfg, items[i].ident)
         THEN extract_functions_from(items, i + 1, file_path, cfg, pool, heap)
         ELSE extract_returns(items, i, file_path, cfg,
                              extract_params(items[i].inputs, 1, pool, heap))

extract_functions_from_ast(items, file_path, cfg, pool, heap) ==
    extract_functions_from(items, 1, file_path, cfg, pool, heap)

(***************************************************************************)
(* rust_analyzer.rs: the File Discoverer.                                  *)
(***************************************************************************)
\* glob::Pattern::new: the tokens of a pattern; "**" is the recursive
\* wildcard when it is a whole path component, and the pattern is invalid
\* otherwise.  Character classes are not modelled.
RECURSIVE glob_tokens(_, _, _)
glob_tokens(pat, i, toks) ==
    IF i > Len(pat) THEN [ok |-> TRUE, toks |-> toks]
    ELSE IF starts_with(SubSeq(pat, i, Len(pat)), "***") THEN [ok |-> FALSE, toks |-> <<>>]
    ELSE IF starts_with(SubSeq(pat, i, Len(pat)), "**")
        THEN IF (i = 1 \/ CharAt(pat, i - 1) = "/")
                /\ (i + 2 > Len(pat) \/ CharAt(pat, i + 2) = "/")
             THEN glob_tokens(pat, IF i + 2 > Len(pat) THEN i + 2 ELSE i + 3,
                              IF Len(toks) > 1 /\ toks[Len(toks)] = "**"
                              THEN toks ELSE Append(toks, "**"))
             ELSE [ok |-> FALSE, toks |-> <<>>]
    ELSE glob_tokens(pat, i + 1, Append(toks, CharAt(pat, i)))

\* glob::Pattern::matches_from with the default MatchOptions
RECURSIVE glob_matches_from(_, _, _, _)
glob_matches_from(toks, ti, file, fi) ==
    IF ti > Len(toks) THEN fi > Len(file)
    ELSE IF toks[ti] = "*"
        THEN \E k \in fi..(Len(file) + 1) : glob_matches_from(toks, ti + 1, file, k)
    ELSE IF toks[ti] = "**"
        THEN \/ glob_matches_from(toks, ti + 1, file, fi)
             \/ \E k \in (fi + 1)..(Len(file) + 1) :
                   /\ CharAt(file, k - 1) = "/"
                   /\ glob_matches_from(toks, ti + 1, file, k)
             \/ glob_matches_from(toks, ti + 1, file, Len(file) + 1)
    ELSE /\ fi <= Len(file)
         /\ (toks[ti] = "?" \/ toks[ti] = CharAt(file, fi))
         /\ glob_matches_from(toks, ti + 1, file, fi + 1)

\* Pattern::new(p) is Ok and the pattern matches the path
pattern_matches(p, path_str) ==
    LET t == glob_tokens(p, 1, <<>>)
    IN  t.ok /\ glob_matches_from(t.toks, 1, path_str, 1)

\* Path::starts_with("."): the first component of the path is "."
path_starts_with_dot(path_str) == path_str = "." \/ starts_with(path_str, "./")

\* the standard locations without the build directory
is_standard_ignored_path_without_build(path_str) ==
    \/ contains(path_str, "/target/")
    \/ contains(path_str, "/.git/")
    \/ contains(path_str, "/node_modules/")
    \/ path_starts_with_dot(path_str)
    \/ contains(path_str, "/dist/")

is_standard_ignored_path(path_str) ==
    \/ contains(path_str, "/target/")
    \/ contains(path_str, "/.git/")
    \/ contains(path_str, "/node_modules/")
    \/ path_starts_with_dot(path_str)
    \/ contains(path_str, "/build/")
    \/ contains(path_str, "/dist/")

should_skip_file(path_str, cfg) ==
    \/ is_standard_ignored_path(path_str)
    \/ \E i \in 1..Len(cfg.skip_patterns) : pattern_matches(cfg.skip_patterns[i], path_str)

\* Path::extension
extension(path_str) ==
    LET name == split(path_str, "/")[Len(split(path_str, "/"))]
        parts == split(name, ".")
    IN  IF Len(parts) < 2 \/ (Len(parts) = 2 /\ parts[1] = "") THEN None
        ELSE Some(parts[Len(parts)])

(***************************************************************************)
(* The inputs: type signatures and override tables.                        *)
(***************************************************************************)
Atoms == {"String", "&str", "u32", "bool", "()", "PathBuf", "Config", "f64"}

RECURSIVE Signatures(_)
Signatures(d) ==
    IF d = 0
    THEN Atoms
    ELSE LET S == Signatures(d - 1)
         IN  S \cup {"Option<" \o t \o ">" : t \in S}
               \cup {"Vec<" \o t \o ">" : t \in S}
               \cup {"Result<" \o t \o ", String>" : t \in S}
               \cup {"&" \o t : t \in S}

TypeSignatures == Signatures(MaxDepth)

OverrideTables ==
    { NoMappings,
      ("String" :> "String::from(\"x\")") @@ ("PathBuf" :> "PathBuf::new()"),
      ("Option<u32>" :> "None") @@ ("Config" :> "Config::load()") @@ (" bool" :> "true")
        @@ ("&str" :> "\"override\"") }

\* Config::default, with the override table given
DefaultConfig(mappings) ==
    [ output_dir |-> "tests",
      skip_functions |-> <<>>,
      type_mappings |-> mappings,
      include_private |-> FALSE,
      parallel |-> TRUE,
      parallel_chunk_size |-> 25,
      respect_gitignore |-> TRUE,
      skip_patterns |-> <<"**/target/**", "**/.git/**", "**/node_modules/**">> ]

(***************************************************************************)
(* A synthesis session: a caller interns type signatures and asks the      *)
(* Value Synthesizer for their values, as generate_params_enhanced does    *)
(* for the parameters of the extracted functions.                          *)
(***************************************************************************)
NoCall == [typ |-> 0, sig |-> "", out |-> ""]

\* no configuration file is being loaded
NoConfigFile == [ext |-> "", well_formed |-> FALSE, root |-> NoMappings]

\* no param_value call is being followed
NoParamValue == [input |-> "", arg |-> "", frames |-> <<>>, calls |-> 0, out |-> None]

\* param.typ = TypeIntern::new(sig); generate_smart_value_enhanced(param.typ.as_str())
SynthesizeParam(sig, pool, heap, mappings) ==
    LET r == TypeInternNew(sig, pool, heap)
    IN  [ call |-> [typ |-> r.typ, sig |-> sig,
                    out |-> generate_smart_value_enhanced(as_str(r.typ, r.heap), mappings)],
          pool |-> r.pool, heap |-> r.heap ]

SynthInit ==
    /\ config \in {DefaultConfig(m) : m \in OverrideTables}
    /\ intern_pool = NoMappings
    /\ arcs = NoMappings
    /\ probe = NoCall
    /\ cur = NoCall
    /\ ncalls = 0
    /\ pc = "idle"
    /\ project_path = ""
    /\ tree = <<>>
    /\ walker = <<>>
    /\ processed_files = {}
    /\ functions = <<>>
    /\ chunk_state = <<>>
    /\ chunk_out = <<>>
    /\ completed = <<>>
    /\ results = <<>>
    /\ test_files = <<>>
    /\ written = 0
    /\ disk = NoMappings
    /\ warnings = <<>>
    /\ temp = None
    /\ dirs = {}
    /\ history = <<>>
    /\ config_file = NoConfigFile
    /\ pv = NoParamValue

FirstCall ==
    /\ probe = NoCall
    /\ \E sig \in TypeSignatures :
          LET r == SynthesizeParam(sig, intern_pool, arcs, config.type_mappings)
          IN  /\ probe' = r.call
              /\ cur' = r.call
              /\ intern_pool' = r.pool
              /\ arcs' = r.heap
    /\ UNCHANGED <<config, ncalls, run_vars, fs_vars, unit_vars>>

\* another parameter, of a plain type or of the first one's type again: the
\* previous one (unless it is the probe) is dropped
NextCall ==
    /\ probe # NoCall
    /\ ncalls < MaxCalls
    /\ \E sig \in Atoms \cup {probe.sig} :
          LET heap == DropTypeIntern(cur.typ, intern_pool, arcs, {probe.typ})
              r == SynthesizeParam(sig, intern_pool, heap, config.type_mappings)
          IN  /\ cur' = r.call
              /\ intern_pool' = r.pool
              /\ arcs' = r.heap
    /\ ncalls' = ncalls + 1
    /\ UNCHANGED <<config, probe, run_vars, fs_vars, unit_vars>>

\* the value of the first parameter is synthesized again from its TypeIntern
Resynthesize ==
    /\ probe # NoCall
    /\ ncalls < MaxCalls
    /\ arcs' = DropTypeIntern(cur.typ, intern_pool, arcs, {probe.typ})
    /\ cur' = [probe EXCEPT !.out =
                  generate_smart_value_enhanced(as_str(probe.typ, arcs'),
                                                config.type_mappings)]
    /\ ncalls' = ncalls + 1
    /\ UNCHANGED <<config, intern_pool, probe, run_vars, fs_vars, unit_vars>>

SynthNext == FirstCall \/ NextCall \/ Resynthesize

SynthSpec == SynthInit /\ [][SynthNext]_vars

(***************************************************************************)
(* The projects a run is started on.  A tree is the sequence of entries    *)
(* the directory walk yields, root first; an entry is [rel, real, is_dir,  *)
(* gitignored, walkable, readable, parses, items, text], real being the    *)
(* file the entry resolves to (rel itself unless the entry is a symbolic   *)
(* link), walkable telling whether the walk yields the entry or an error   *)
(* for it, items the parsed items of a Rust file and text the content of   *)
(* a file of another language.  The empty tree stands for a root that      *)
(* does not exist: the walk's only entry is an error.                      *)
(***************************************************************************)
Typed(pat, ty) == [kind |-> "typed", pat |-> pat, ty |-> ty]

Fn(vis, ident, inputs, output, asyncness) ==
    [kind |-> "fn", vis |-> vis, ident |-> ident, inputs |-> inputs,
     output |-> output, asyncness |-> asyncness]

OtherItem == [kind |-> "other"]

Dir(rel) ==
    [rel |-> rel, real |-> rel, is_dir |-> TRUE, gitignored |-> FALSE, walkable |-> TRUE,
     readable |-> TRUE, parses |-> FALSE, items |-> <<>>, text |-> ""]

File(rel, items) ==
    [rel |-> rel, real |-> rel, is_dir |-> FALSE, gitignored |-> FALSE, walkable |-> TRUE,
     readable |-> TRUE, parses |-> TRUE, items |-> items, text |-> ""]

\* a symbolic link at rel to the file of entry target
Symlink(rel, target) == [target EXCEPT !.rel = rel]

GreetTree ==
    << Dir(""), File("Cargo.toml", <<>>), Dir("src"),
       File("src/lib.rs", <<Fn("pub", "greet", <<Typed("name", "String")>>, "String", FALSE)>>) >>

TwoFnTree ==
    << Dir(""), Dir("src"),
       File("src/main.rs",
            << Fn("pub", "run", <<Typed("args", "Vec<String>")>>, "Result<(), String>", FALSE),
               Fn("", "helper", <<Typed("x", "&str")>>, "", FALSE) >>) >>

LibTree ==
    << Dir(""), Dir("src"),
       File("src/lib.rs",
            << OtherItem,
               Fn("pub", "add", <<Typed("a", "i32"), Typed("b", "i32")>>, "i32", FALSE),
               Fn("pub(crate)", "internal", <<>>, "bool", FALSE),
               Fn("pub", "fetch", <<Typed("url", "&str")>>, "Option<String>", TRUE),
               Fn("pub", "test_skip", <<Typed("", "(u32, u32)")>>, "", FALSE) >>),
       Dir("src/utils"),
       File("src/utils/mod.rs",
            << Fn("pub", "get_items", <<Typed("dir", "PathBuf")>>, "Vec<String>", FALSE),
               Fn("", "count", <<Typed("items", "&mut Vec<String>")>>, "usize", FALSE) >>),
       [File("src/broken.rs", <<>>) EXCEPT !.parses = FALSE],
       Dir("target"),
       [File("target/gen.rs", <<Fn("pub", "generated", <<>>, "", FALSE)>>)
          EXCEPT !.gitignored = TRUE],
       Dir("build"),
       File("build/out.rs", <<Fn("pub", "built", <<>>, "u32", FALSE)>>) >>

StatsFile ==
    File("src/stats.rs",
         << Fn("pub", "mean", <<Typed("xs", "Vec<f64>")>>, "f64", FALSE),
            Fn("pub", "histogram", <<>>, "HashMap<String, i32>", FALSE) >>)

\* src/alias.rs is a symbolic link to src/stats.rs; src/locked.rs cannot be read;
\* the directory src/private cannot be listed
LinkTree ==
    << Dir(""), Dir("src"), StatsFile, Symlink("src/alias.rs", StatsFile),
       [File("src/locked.rs", <<>>) EXCEPT !.readable = FALSE],
       [Dir("src/private") EXCEPT !.walkable = FALSE] >>

\* the root does not exist
MissingRootTree == <<>>

Trees == {GreetTree, TwoFnTree, LibTree, LinkTree, MissingRootTree}

Roots == {"/proj", "proj", "."}

SkipLists == {<<>>, <<"test_", "internal">>}

SkipPatternLists == {<<>>, DefaultConfig(NoMappings).skip_patterns}

\* the path WalkDir / WalkBuilder yields for an entry
EntryPath(root, rel) == IF rel = "" THEN root ELSE PathJoin(root, rel)

\* Path::parent
parent(path_str) ==
    join(SubSeq(split(path_str, "/"), 1, Len(split(path_str, "/")) - 1), "/")

\* Path::file_name
file_name(path_str) == split(path_str, "/")[Len(split(path_str, "/"))]

\* Path::file_stem
file_stem(path_str) ==
    IF extension(path_str).some
    THEN SubSeq(file_name(path_str), 1,
                Len(file_name(path_str)) - Len(extension(path_str).val) - 1)
    ELSE file_name(path_str)

\* the path below the root
relative_to(path_str, root) ==
    IF path_str = root THEN "" ELSE SubSeq(path_str, Len(root) + 2, Len(path_str))

\* syn::parse_file on a file the generator wrote: a use declaration and one
\* test function, private, without parameters (the bodies rendered for the
\* trees the run is repeated on hold no generic path)
syn_parse_file(content) ==
    IF find(content, " fn ") = 0
    THEN <<>>
    ELSE << Fn("", SubSeq(SubSeq(content, find(content, " fn ") + 4, Len(content)), 1,
                          ident_len(SubSeq(content, find(content, " fn ") + 4, Len(content)))),
               <<>>, "", FALSE) >>

\* Path::exists for a directory
dir_exists(path_str) ==
    \/ path_str \in dirs
    \/ \E k \in 1..Len(tree) :
          tree[k].is_dir /\ EntryPath(project_path, tree[k].rel) = path_str

\* the filesystem's answer for a walked path: a file or directory an
\* earlier write created, or an entry of the tree
Lookup(path_str) ==
    IF path_str \in DOMAIN disk
    THEN [File(relative_to(path_str, project_path), syn_parse_file(disk[path_str]))
             EXCEPT !.text = disk[path_str]]
    ELSE IF path_str \in dirs
    THEN Dir(relative_to(path_str, project_path))
    ELSE tree[CHOOSE i \in 1..Len(tree) : EntryPath(project_path, tree[i].rel) = path_str]

\* read_dir yields the entries of a directory in an unspecified order: one
\* order of the set
RECURSIVE read_dir_order(_)
read_dir_order(S) ==
    IF S = {} THEN <<>>
    ELSE <<CHOOSE q \in S : TRUE>> \o read_dir_order(S \ {CHOOSE q \in S : TRUE})

\* the paths of the entries
entry_paths(entries) ==
    [i \in 1..Len(entries) |-> EntryPath(project_path, entries[i].rel)]

\* the paths a walk of the root yields: the entries of the tree but those
\* the walk fails on (its errors are dropped by filter_map(|e| e.ok())) and,
\* with the ignore rules, those .gitignore excludes, then the directories
\* and files created since
walk_paths(respect_gitignore) ==
    entry_paths(SelectSeq(tree, LAMBDA e : e.walkable /\ ~(respect_gitignore /\ e.gitignored)))
    \o read_dir_order(dirs \cup {q \in DOMAIN disk :
                                    \A k \in 1..Len(tree) :
                                        EntryPath(project_path, tree[k].rel) # q})

Init ==
    /\ config \in
         { [DefaultConfig(NoMappings) EXCEPT
              !.include_private = ip, !.skip_functions = sk, !.parallel = par,
              !.parallel_chunk_size = n, !.respect_gitignore = gi, !.skip_patterns = sp]
           : ip \in BOOLEAN, sk \in SkipLists, par \in BOOLEAN,
             n \in 0..MaxChunk, gi \in BOOLEAN, sp \in SkipPatternLists }
    /\ project_path \in Roots
    /\ tree \in Trees
    /\ intern_pool = NoMappings
    /\ arcs = NoMappings
    /\ probe = NoCall
    /\ cur = NoCall
    /\ ncalls = 0
    /\ pc = "start"
    /\ walker = <<>>
    /\ processed_files = {}
    /\ functions = <<>>
    /\ chunk_state = <<>>
    /\ chunk_out = <<>>
    /\ completed = <<>>
    /\ results = <<>>
    /\ test_files = <<>>
    /\ written = 0
    /\ disk = NoMappings
    /\ warnings = <<>>
    /\ temp = None
    /\ dirs = {}
    /\ history = <<>>
    /\ config_file = NoConfigFile
    /\ pv = NoParamValue

(***************************************************************************)
(* analyze_rust_project_filtered                                           *)
(***************************************************************************)
\* the walk: every entry, or those the ignore rules leave when
\* respect_gitignore is set
Walk ==
    /\ pc = "start"
    /\ walker' = walk_paths(config.respect_gitignore)
    /\ pc' = "analyze"
    /\ UNCHANGED <<config, intern_pool, arcs, synth_vars, fs_vars, unit_vars, project_path, tree,
                   processed_files, functions, chunk_state, chunk_out, completed,
                   results, test_files, written, disk, warnings>>

\* one iteration of "for entry in walker"
AnalyzeEntry ==
    /\ pc = "analyze"
    /\ walker # <<>>
    /\ LET path_str == Head(walker)
           entry == Lookup(path_str)
           skipped == \/ entry.is_dir
                      \/ extension(path_str) # Some("rs")
                      \/ should_skip_file(path_str, config)
                      \/ path_str \in processed_files
           r == extract_functions_from_ast(entry.items, path_str, config, intern_pool, arcs)
       IN  /\ walker' = Tail(walker)
           /\ IF skipped
              THEN UNCHANGED <<processed_files, functions, intern_pool, arcs, warnings>>
              ELSE /\ processed_files' = processed_files \cup {path_str}
                   /\ IF ~entry.readable
                      THEN /\ warnings' = Append(warnings, "Warning: Could not read " \o path_str)
                           /\ UNCHANGED <<functions, intern_pool, arcs>>
                      ELSE IF ~entry.parses
                      THEN /\ warnings' = Append(warnings, "Warning: Failed to parse " \o path_str)
                           /\ UNCHANGED <<functions, intern_pool, arcs>>
                      ELSE /\ functions' = functions \o r.functions
                           /\ intern_pool' = r.pool
                           /\ arcs' = r.heap
                           /\ UNCHANGED warnings
    /\ UNCHANGED <<config, synth_vars, fs_vars, unit_vars, pc, project_path, tree, chunk_state, chunk_out,
                   completed, results, test_files, written, disk>>

(***************************************************************************)
(* analyze_rust_project: the whole-project analysis without a policy,      *)
(* built on analyze_rust_file.                                             *)
(***************************************************************************)
\* analyze_rust_file on a file that was read and parsed: the pub functions
analyze_rust_file(items, file_path, pool, heap) ==
    extract_functions_from_ast(items, file_path,
                               [include_private |-> FALSE, skip_functions |-> <<>>],
                               pool, heap)

\* WalkDir::new(root): every entry
WalkAll ==
    /\ pc = "start"
    /\ walker' = walk_paths(FALSE)
    /\ pc' = "analyze_all"
    /\ UNCHANGED <<config, intern_pool, arcs, synth_vars, fs_vars, unit_vars, project_path, tree,
                   processed_files, functions, chunk_state, chunk_out, completed,
                   results, test_files, written, disk, warnings>>

\* one iteration of the loop of analyze_rust_project: analyze_rust_file
\* panics on a file it cannot read or parse
AnalyzeFile ==
    /\ pc = "analyze_all"
    /\ walker # <<>>
    /\ LET path_str == Head(walker)
           entry == Lookup(path_str)
           r == analyze_rust_file(entry.items, path_str, intern_pool, arcs)
       IN  /\ walker' = Tail(walker)
           /\ IF extension(path_str) # Some("rs")
              THEN UNCHANGED <<pc, functions, intern_pool, arcs>>
              ELSE IF ~entry.readable \/ ~entry.parses
              THEN /\ pc' = "analysis_panicked"
                   /\ UNCHANGED <<functions, intern_pool, arcs>>
              ELSE /\ functions' = functions \o r.functions
                   /\ intern_pool' = r.pool
                   /\ arcs' = r.heap
                   /\ UNCHANGED pc
    /\ UNCHANGED <<config, synth_vars, fs_vars, unit_vars, project_path, tree, processed_files, chunk_state,
                   chunk_out, completed, results, test_files, written, disk, warnings>>

\* analyze_rust_project returns its ProjectInfo
ReturnProject ==
    /\ pc = "analyze_all"
    /\ walker = <<>>
    /\ pc' = "analyzed_all"
    /\ UNCHANGED <<config, intern_pool, arcs, synth_vars, fs_vars, unit_vars, project_path, tree, walker,
                   processed_files, functions, chunk_state, chunk_out, completed,
                   results, test_files, written, disk, warnings>>

(***************************************************************************)
(* RustGenerator::generate_with_config                                     *)
(***************************************************************************)
\* analysis is over: the project is built and its functions are filtered;
\* with nothing left the run returns the empty list
RetainFunctions ==
    /\ pc = "analyze"
    /\ walker = <<>>
    /\ functions' = SelectSeq(functions, LAMBDA f : ~should_skip_function(config, f.name))
    /\ IF functions' = <<>>
       THEN /\ pc' = "write"
            /\ test_files' = <<>>
       ELSE /\ pc' = "generate"
            /\ UNCHANGED test_files
    /\ UNCHANGED <<config, intern_pool, arcs, synth_vars, fs_vars, unit_vars, project_path, tree, walker,
                   processed_files, chunk_state, chunk_out, completed, results, written,
                   disk, warnings>>

\* sequential mode: one step of the map over project.functions
GenerateSequential ==
    /\ pc = "generate"
    /\ ~config.parallel
    /\ Len(results) < Len(functions)
    /\ results' = Append(results,
                         generate_test_for_func_with_config(functions[Len(results) + 1],
                                                            arcs, config, project_path))
    /\ pc' = IF Len(results') = Len(functions) THEN "partition" ELSE "generate"
    /\ UNCHANGED <<config, intern_pool, arcs, synth_vars, fs_vars, unit_vars, project_path, tree, walker,
                   processed_files, functions, chunk_state, chunk_out, completed,
                   test_files, written, disk, warnings>>

\* slice::par_chunks: the number of chunks of len elements, n >= 1
chunk_count(len, n) == (len + n - 1) \div n

\* slice::par_chunks: chunk c, the last one possibly shorter
chunk_of(funcs, c, n) ==
    SubSeq(funcs, (c - 1) * n + 1, IF c * n < Len(funcs) THEN c * n ELSE Len(funcs))

\* par_chunks(parallel_chunk_size): the chunks are handed to the pool
SplitChunks ==
    /\ pc = "generate"
    /\ config.parallel
    /\ config.parallel_chunk_size >= 1
    /\ chunk_state' = [c \in 1..chunk_count(Len(functions), config.parallel_chunk_size) |->
                         "pending"]
    /\ chunk_out' = [c \in 1..chunk_count(Len(functions), config.parallel_chunk_size) |->
                         <<>>]
    /\ pc' = "parallel"
    /\ UNCHANGED <<config, intern_pool, arcs, synth_vars, fs_vars, unit_vars, project_path, tree, walker,
                   processed_files, functions, completed, results, test_files, written,
                   disk, warnings>>

\* par_chunks(0): rayon asserts chunk_size != 0
ParChunksPanic ==
    /\ pc = "generate"
    /\ config.parallel
    /\ config.parallel_chunk_size = 0
    /\ pc' = "panicked"
    /\ UNCHANGED <<config, intern_pool, arcs, synth_vars, fs_vars, unit_vars, project_path, tree, walker,
                   processed_files, functions, chunk_state, chunk_out, completed, results,
                   test_files, written, disk, warnings>>

\* a worker takes a chunk
StartChunk(c) ==
    /\ pc = "parallel"
    /\ chunk_state[c] = "pending"
    /\ chunk_state' = [chunk_state EXCEPT ![c] = "running"]
    /\ UNCHANGED <<config, intern_pool, arcs, synth_vars, fs_vars, unit_vars, pc, project_path, tree, walker,
                   processed_files, functions, chunk_out, completed, results, test_files,
                   written, disk, warnings>>

\* the worker's closure returns: process_function_chunk on its chunk
FinishChunk(c) ==
    /\ pc = "parallel"
    /\ chunk_state[c] = "running"
    /\ chunk_state' = [chunk_state EXCEPT ![c] = "done"]
    /\ chunk_out' = [chunk_out EXCEPT ![c] =
                       process_function_chunk(
                           chunk_of(functions, c, config.parallel_chunk_size),
                           arcs, config, project_path)]
    /\ completed' = Append(completed, c)
    /\ UNCHANGED <<config, intern_pool, arcs, synth_vars, fs_vars, unit_vars, pc, project_path, tree, walker,
                   processed_files, functions, results, test_files, written, disk, warnings>>

\* the concatenation of outs[c..] in chunk order
RECURSIVE flatten_from(_, _)
flatten_from(outs, c) ==
    IF c > Len(outs) THEN <<>> ELSE outs[c] \o flatten_from(outs, c + 1)

\* the outputs concatenated in the order the workers finished
RECURSIVE flatten_in_completion_order(_, _)
flatten_in_completion_order(outs, finished) ==
    IF finished = <<>> THEN <<>>
    ELSE outs[Head(finished)] \o flatten_in_completion_order(outs, Tail(finished))

\* .flatten().collect(): rayon's collect keeps the order of the chunks,
\* whatever the order in which the workers finished
flatten_collect(outs, finished) == flatten_from(outs, 1)

\* every worker has returned: the results are collected
CollectChunks ==
    /\ pc = "parallel"
    /\ \A c \in DOMAIN chunk_state : chunk_state[c] = "done"
    /\ results' = flatten_collect(chunk_out, completed)
    /\ pc' = "partition"
    /\ UNCHANGED <<config, intern_pool, arcs, synth_vars, fs_vars, unit_vars, project_path, tree, walker,
                   processed_files, functions, chunk_state, chunk_out, completed,
                   test_files, written, disk, warnings>>

\* partition(Result::is_ok): generate_test_for_func_with_config never fails,
\* so every result is a success; the parallel iterator is gone by now
PartitionResults ==
    /\ pc = "partition"
    /\ test_files' = results
    /\ chunk_state' = <<>>
    /\ chunk_out' = <<>>
    /\ completed' = <<>>
    /\ pc' = "write"
    /\ UNCHANGED <<config, intern_pool, arcs, synth_vars, fs_vars, unit_vars, project_path, tree, walker,
                   processed_files, functions, results, written, disk, warnings>>

(***************************************************************************)
(* generate_tests_for_project_with_config                                  *)
(***************************************************************************)
\* FsUtils::write_test_file_atomic: the temporary file is renamed over the
\* target, replacing what the path held
write_test_file_atomic(files, test) ==
    [q \in DOMAIN files \cup {test.path} |->
        IF q = test.path THEN test.content ELSE files[q]]

\* one iteration of "for test_file in &test_files"
WriteTestFile ==
    /\ pc = "write"
    /\ written < Len(test_files)
    /\ disk' = write_test_file_atomic(disk, test_files[written + 1])
    /\ written' = written + 1
    /\ UNCHANGED <<config, intern_pool, arcs, synth_vars, fs_vars, unit_vars, pc, project_path, tree, walker,
                   processed_files, functions, chunk_state, chunk_out, completed, results,
                   test_files, warnings>>

\* the walk for the secondary language finds no .v file, and the run returns
Finish ==
    /\ pc = "write"
    /\ written = Len(test_files)
    /\ \A k \in 1..Len(tree) : extension(tree[k].rel) # Some("v")
    /\ pc' = "done"
    /\ UNCHANGED <<config, intern_pool, arcs, synth_vars, fs_vars, unit_vars, project_path, tree, walker,
                   processed_files, functions, chunk_state, chunk_out, completed, results,
                   test_files, written, disk, warnings>>

Next ==
    \/ Walk
    \/ AnalyzeEntry
    \/ WalkAll
    \/ AnalyzeFile
    \/ ReturnProject
    \/ RetainFunctions
    \/ GenerateSequential
    \/ SplitChunks
    \/ ParChunksPanic
    \/ \E c \in DOMAIN chunk_state : StartChunk(c)
    \/ \E c \in DOMAIN chunk_state : FinishChunk(c)
    \/ CollectChunks
    \/ PartitionResults
    \/ WriteTestFile
    \/ Finish

Spec == Init /\ [][Next]_vars

(***************************************************************************)
(* Properties of the Value Synthesizer, over the calls of a synthesis      *)
(* session (SynthSpec).                                                    *)
(***************************************************************************)
Called == cur # NoCall

EmptyTable == config.type_mappings = NoMappings

\* C1: a signature that is a key of the override table is given the
\* override's text, unchanged, whatever built-in rule its shape would match.
C1_OverridePrecedence ==
    (Called /\ cur.sig \in DOMAIN config.type_mappings)
        => cur.out = config.type_mappings[cur.sig]

\* overrides have won over the library rule, the primitive rule and the
\* wrapper rule
C1_Witness ==
    /\ Called
    /\ cur.sig \in {"PathBuf", "String", "Option<u32>"}
    /\ cur.sig \in DOMAIN config.type_mappings
    /\ cur.out = config.type_mappings[cur.sig]

\* the first (success) argument of the text between "Result<" and ">"
SuccessArgument(sig) == trim(split(strip_generic(sig, "Result").val, ",")[1])

\* C2: with an empty override table a signature Result<T, E> is given
\* Ok(v), v being the value synthesized for T; Result<String, String> is
\* given Ok of the short text literal.
C2_ResultYieldsOk ==
    (Called /\ EmptyTable /\ strip_generic(cur.sig, "Result").some)
        => /\ cur.out = "Ok(" \o generate_smart_value_enhanced(SuccessArgument(cur.sig),
                                                                 config.type_mappings) \o ")"
           /\ (cur.sig = "Result<String, String>" => cur.out = "Ok(\"test\".to_string())")

\* C3: a signature Option<T> is given Some(v), v being the value the
\* synthesizer gives T.
C3_OptionYieldsSome ==
    (Called /\ cur.sig \notin DOMAIN config.type_mappings
            /\ strip_generic(cur.sig, "Option").some)
        => cur.out = "Some(" \o generate_smart_value_enhanced(
                                    strip_generic(cur.sig, "Option").val,
                                    config.type_mappings) \o ")"

\* C4: a signature Vec<T> is given the one-element literal vec![v], v being
\* the value the synthesizer gives T.
C4_VecYieldsOneElement ==
    (Called /\ cur.sig \notin DOMAIN config.type_mappings
            /\ strip_generic(cur.sig, "Vec").some)
        => cur.out = "vec![" \o generate_smart_value_enhanced(
                                    strip_generic(cur.sig, "Vec").val,
                                    config.type_mappings) \o "]"

\* the signatures rules 2 to 7 of the resolution order match
IsLibraryType(sig) == sig \in {"PathBuf", "Uuid", "Url", "DateTime"}

IsPrimitive(sig) == sig \in {"String", "&str", "usize", "u32", "u64", "i32", "i64", "bool", "()"}

IsWrapper(sig) ==
    \/ strip_generic(sig, "Option").some
    \/ strip_generic(sig, "Result").some
    \/ strip_generic(sig, "Vec").some

IsReference(sig) == starts_with(sig, "&")

\* C5: with an empty override table the textual and primitive signatures
\* are given their canonical literals, and only a signature no earlier rule
\* matches is given the default instance of the nominal type.
C5_PrimitivesBeforeNominal ==
    (Called /\ EmptyTable)
        => /\ cur.sig = "String" => cur.out = "\"test\".to_string()"
           /\ cur.sig = "&str" => cur.out = "\"test\""
           /\ cur.sig \in {"usize", "u32", "u64", "i32", "i64"} => cur.out = "0"
           /\ cur.sig = "bool" => cur.out = "false"
           /\ cur.sig = "()" => cur.out = "()"
           /\ cur.out = cur.sig \o "::default()"
                => ~(IsLibraryType(cur.sig) \/ IsPrimitive(cur.sig) \/ IsWrapper(cur.sig)
                     \/ IsReference(cur.sig))

\* C6: the value given to a signature is the same at every call of a
\* session, whatever calls (and internings) were made in between, and it is
\* the value the signature text and the override table determine.
C6_Deterministic ==
    Called =>
        /\ cur.sig = probe.sig => cur.out = probe.out
        /\ as_str(cur.typ, arcs) = cur.sig
        /\ as_str(probe.typ, arcs) = probe.sig

\* a signature outside the pool has been synthesized a second time, from a
\* second allocation, after other calls
C6_Witness ==
    /\ ncalls >= 2
    /\ cur.sig = probe.sig
    /\ cur.typ # probe.typ
    /\ cur.out = probe.out

(***************************************************************************)
(* Properties of a generation run (Spec).                                  *)
(***************************************************************************)
\* generate_with_config has returned its TestFiles, one per retained function
Generated == pc \in {"write", "done"} /\ Len(test_files) = Len(functions)

\* C7: the act line of every rendered test calls the function under test
\* by its own name, with the synthesized arguments.
C7_ActLineInvokesFunction ==
    Generated =>
        \A i \in 1..Len(test_files) :
            contains(test_files[i].content,
                     "        let result = " \o functions[i].name \o "(")

\* C8: no test is lost: once the run has persisted its TestFiles, the file
\* at the output path of every retained function holds that function's test.
C8_NoTestLost ==
    (pc = "done" /\ Len(test_files) = Len(functions)) =>
        \A i \in 1..Len(functions) :
            /\ test_files[i].path \in DOMAIN disk
            /\ contains(disk[test_files[i].path],
                        "fn test_" \o functions[i].name \o "_integration()")

\* sequential mode: the map over project.functions, in extraction order
sequential_results(funcs, heap, cfg, root) ==
    [i \in 1..Len(funcs) |-> generate_test_for_func_with_config(funcs[i], heap, cfg, root)]

\* C9: in parallel mode the collected results, and the TestFiles returned,
\* are those of sequential mode, in extraction order, whatever the chunk
\* size (>= 1) and the order in which the workers started and finished.
C9_ParallelEqualsSequential ==
    config.parallel =>
        /\ pc = "partition"
             => results = sequential_results(functions, arcs, config, project_path)
        /\ (pc \in {"write", "done"} /\ functions # <<>>)
             => test_files = sequential_results(functions, arcs, config, project_path)

\* the workers of at least two chunks, the last one shorter than the
\* others, finished out of chunk order, and the results were collected
C9_Witness ==
    /\ config.parallel
    /\ pc = "partition"
    /\ Len(completed) >= 2
    /\ completed[1] > completed[2]
    /\ Len(functions) % config.parallel_chunk_size # 0
    /\ results = sequential_results(functions, arcs, config, project_path)

\* the name filter: the name contains one of the skip substrings
NameExcluded(name) ==
    \E i \in 1..Len(config.skip_functions) : contains(name, config.skip_functions[i])

\* the top-level functions of a file the visibility filter and the name
\* filter let through, by name and in source order
Expected(items) ==
    LET kept == SelectSeq(items, LAMBDA it :
                    /\ it.kind = "fn"
                    /\ (it.vis = "pub" \/ config.include_private)
                    /\ ~NameExcluded(it.ident))
    IN  [i \in 1..Len(kept) |-> kept[i].ident]

\* the descriptors extracted from a file, by name and in order
Extracted(path_str) ==
    LET of == SelectSeq(functions, LAMBDA f : f.file = path_str)
    IN  [i \in 1..Len(of) |-> of[i].name]

PublicCount(items) ==
    Cardinality({i \in 1..Len(items) : items[i].kind = "fn" /\ items[i].vis = "pub"})

PrivateCount(items) ==
    Cardinality({i \in 1..Len(items) : items[i].kind = "fn" /\ items[i].vis # "pub"})

InPipeline ==
    pc \in {"analyze", "generate", "parallel", "partition", "write", "done", "panicked"}

\* the fn item passes the visibility filter
Visible(it) == it.kind = "fn" /\ (it.vis = "pub" \/ config.include_private)

\* the project holds a descriptor for the function named ident of file path_str
Retained(ident, path_str) ==
    \E i \in 1..Len(functions) :
        functions[i].name = ident /\ functions[i].file = path_str

Unanalyzable(path_str) == ~(Lookup(path_str).readable /\ Lookup(path_str).parses)

\* C12: in a whole-project analysis a file that cannot be read or parsed
\* contributes no descriptor and a warning, the analysis does not abort, and
\* the files that parse still contribute their retained functions.
C12_ParseFailureIsolation ==
    /\ pc # "analysis_panicked"
    /\ \A p \in processed_files :
          IF Unanalyzable(p)
          THEN /\ \A i \in 1..Len(functions) : functions[i].file # p
               /\ \E w \in 1..Len(warnings) : contains(warnings[w], p)
          ELSE Extracted(p) = Expected(Lookup(p).items)


\* C13: on a project root that does not exist the run returns an error
\* before any extraction: generate_with_config never returns a (then empty)
\* list of TestFiles and the run never ends in success.
C13_InvalidRootIsFatal ==
    tree = MissingRootTree => pc \notin {"write", "done"}


\* the file a walked path resolves to
RealFile(path_str) == Lookup(path_str).real

\* C14: each source file contributes its functions at most once to the
\* project analyze_rust_project_filtered builds, also when the walk reaches
\* it under two path spellings: no two descriptors are those of one function
\* of one file.
C14_FileContributesOnce ==
    InPipeline =>
        \A i, j \in 1..Len(functions) :
            (i # j /\ functions[i].name = functions[j].name)
                => RealFile(functions[i].file) # RealFile(functions[j].file)


\* build output, version-control metadata and dependency directories
InfrastructureDirs == {"target", ".git", "node_modules", "build", "dist"}

\* the file at rel, a path relative to the root, lies under one of them
UnderInfrastructure(rel) ==
    \E k \in 1..(Len(split(rel, "/")) - 1) : split(rel, "/")[k] \in InfrastructureDirs

\* C15: no function of the project has its source file under a build-output,
\* version-control or dependency directory, whatever respect_gitignore and
\* skip_patterns are and however the root is written.
C15_SafetyNet ==
    InPipeline =>
        \A i \in 1..Len(functions) : ~UnderInfrastructure(Lookup(functions[i].file).rel)

\* with the ignore rules off and no skip pattern, the walk has yielded the
\* files under target and build, and the run has kept the others only
C15_Witness ==
    /\ pc = "done"
    /\ tree = LibTree
    /\ ~config.respect_gitignore
    /\ config.skip_patterns = <<>>
    /\ Len(functions) >= 3
    /\ \A p \in {"target/gen.rs", "build/out.rs"} :
          /\ \E k \in 1..Len(tree) : tree[k].rel = p
          /\ \A i \in 1..Len(functions) : functions[i].file # EntryPath(project_path, p)


\* the lines of a rendered test file
Lines(content) == split(content, "\n")

\* the position of the first line equal to l
LineIndex(lines, l) == CHOOSE k \in 1..Len(lines) : lines[k] = l /\ \A m \in 1..(k - 1) : lines[m] # l

\* the bindings of the arrange block: the non-blank lines between the
\* "// Arrange" and the "// Act" comments
ArrangeBindings(content) ==
    LET lines == Lines(content)
        from == LineIndex(lines, "        // Arrange")
        to == LineIndex(lines, "        // Act")
    IN  SelectSeq(SubSeq(lines, from + 1, to - 1), LAMBDA l : l # "")

\* the act line: the line that follows the "// Act" comment
ActLineOf(content) == Lines(content)[LineIndex(Lines(content), "        // Act") + 1]

\* one binding per parameter: param_<k> bound to the value synthesized for
\* the type of parameter k
ExpectedBindings(func) ==
    [k \in 1..Len(func.params) |->
        "        let param_" \o to_string(k - 1) \o " = "
        \o generate_smart_value_enhanced(as_str(func.params[k].typ, arcs), config.type_mappings)
        \o ";"]

\* the locals, in parameter order
ExpectedArguments(func) ==
    join([k \in 1..Len(func.params) |-> "param_" \o to_string(k - 1)], ", ")

\* C16: the arrange block of a rendered test holds one binding per
\* parameter, param_0, param_1, ... in parameter order, each to the value
\* synthesized for the parameter's type, and the act line passes those
\* locals in that order; a function without parameters has no binding and
\* no argument.
C16_OneBindingPerParameter ==
    Generated =>
        \A i \in 1..Len(test_files) :
            /\ ArrangeBindings(test_files[i].content) = ExpectedBindings(functions[i])
            /\ \E suffix \in {"", ".await"} :
                  ends_with(ActLineOf(test_files[i].content),
                            "(" \o ExpectedArguments(functions[i]) \o ")" \o suffix \o ";")


\* the fn item a descriptor was extracted from
SourceItem(func) ==
    LET items == Lookup(func.file).items
    IN  items[CHOOSE k \in 1..Len(items) : items[k].kind = "fn" /\ items[k].ident = func.name]

\* the assertion of a rendered test: the line that follows "// Assert"
AssertLineOf(content) == Lines(content)[LineIndex(Lines(content), "        // Assert") + 1]

\* C17: end to end, a function declared to return Result<T, E>, Option<T>
\* or Vec<T> gets the assert-success, assert-presence or assert-non-empty
\* assertion, and a function without declared return type has the
\* signature () and gets the no-op comment.
C17_WrapperAssertions ==
    Generated =>
        \A i \in 1..Len(test_files) :
            LET output == SourceItem(functions[i]).output
                assertion == AssertLineOf(test_files[i].content)
            IN  /\ starts_with(output, "Result<")
                     => assertion = "        assert!(result.is_ok(), \"Function should succeed\");"
                /\ starts_with(output, "Option<")
                     => assertion
                          = "        assert!(result.is_some(), \"Function should return Some value\");"
                /\ starts_with(output, "Vec<")
                     => assertion
                          = "        assert!(!result.is_empty(), \"Function should return non-empty vector\");"
                /\ output = ""
                     => /\ as_str(functions[i].returns, arcs) = "()"
                        /\ assertion
                             = "        // Function returns unit type - no assertion needed"


NumericNames == {"i32", "i64", "u32", "u64", "usize"}

FloatNames == {"f32", "f64"}

\* the return signature has one of the shapes the Assertion Synthesizer lists
ListedShape(t) ==
    \/ t \in {"()", "String", "&str", "bool"} \cup NumericNames \cup FloatNames
    \/ starts_with(t, "Result<") \/ starts_with(t, "Option<") \/ starts_with(t, "Vec<")
    \/ contains(t, "PathBuf") \/ contains(t, "&Path") \/ contains(t, "Uuid")
    \/ contains(t, "Url")

\* C18: the non-negative assertion is emitted only for a return signature
\* that is a numeric type name, the not-NaN assertion only for one that is a
\* floating type name, and a signature of none of the listed shapes gets the
\* placeholder comment naming the type.
C18_NoFabricatedAssertion ==
    Generated =>
        \A i \in 1..Len(test_files) :
            LET t == as_str(functions[i].returns, arcs)
                assertion == AssertLineOf(test_files[i].content)
            IN  /\ assertion
                     = "        assert!(result >= 0, \"Function should return non-negative number\");"
                     => t \in NumericNames
                /\ assertion
                     = "        assert!(!result.is_nan(), \"Function should return valid float\");"
                     => t \in FloatNames
                /\ ~ListedShape(t)
                     => assertion = "        // TODO: Add appropriate assertion for type: " \o t


\* the last component of a path
FileNameOf(path_str) == split(path_str, "/")[Len(split(path_str, "/"))]

\* C19: a function whose source file, as the whole-project extractor
\* records it, is the library entry file src/lib.rs has the empty module
\* path and the output file integration_tests.rs; for any other file the
\* name is the module path segments joined with "_", then "_tests.rs".
C19_OutputFileName ==
    Generated =>
        \A i \in 1..Len(test_files) :
            IF Lookup(functions[i].file).rel = "src/lib.rs"
            THEN /\ module_path_from_file(functions[i].file) = ""
                 /\ FileNameOf(test_files[i].path) = "integration_tests.rs"
            ELSE FileNameOf(test_files[i].path)
                   = join(split(module_path_from_file(functions[i].file), "::"), "_")
                     \o "_tests.rs"


\* C20: the rendered test has the async form, the #[tokio::test] attribute
\* and an awaited call, iff the function's is_async flag is set, and the
\* synchronous form, #[test] and no await, otherwise; the flag is set iff
\* the source signature carries the async qualifier.
C20_AsyncForm ==
    Generated =>
        \A i \in 1..Len(test_files) :
            LET content == test_files[i].content
                tokio == contains(content, "    #[tokio::test] fn test_")
                plain == contains(content, "    #[test] fn test_")
                awaited == ends_with(ActLineOf(content), ").await;")
            IN  /\ functions[i].is_async <=> SourceItem(functions[i]).asyncness
                /\ functions[i].is_async <=> (tokio /\ awaited)
                /\ ~functions[i].is_async <=> (plain /\ ~contains(content, ".await"))
                /\ tokio <=> ~plain

\* a run over the library project has rendered the test of the async
\* function fetch in the async form and those of the others in the
\* synchronous form
C20_Witness ==
    /\ pc = "done"
    /\ tree = LibTree
    /\ \E i, j \in 1..Len(test_files) :
          /\ functions[i].name = "fetch"
          /\ functions[i].is_async
          /\ contains(test_files[i].content, "#[tokio::test] fn test_fetch_integration()")
          /\ contains(test_files[i].content, "(param_0).await;")
          /\ functions[j].name = "add"
          /\ ~functions[j].is_async
          /\ contains(test_files[j].content, "#[test] fn test_add_integration()")
          /\ contains(test_files[j].content, "(param_0, param_1);")


(***************************************************************************)
(* Properties of TypeIntern and of the library forms, over the calls of a  *)
(* synthesis session (SynthSpec).                                          *)
(***************************************************************************)
\* #[derive(PartialEq)] on TypeIntern(Arc<str>): the texts are compared
TypeInternEq(a, b, heap) == as_str(a, heap) = as_str(b, heap)

\* C23: two TypeInterns made from the same string compare equal and are
\* handles on the same allocation, inside and outside the pool; two made
\* from different strings compare unequal.
C23_InternedOnce ==
    Called =>
        /\ cur.sig = probe.sig =>
              /\ TypeInternEq(cur.typ, probe.typ, arcs)
              /\ cur.typ = probe.typ
        /\ cur.sig # probe.sig => ~TypeInternEq(cur.typ, probe.typ, arcs)

\* the library forms of generate_smart_value_enhanced
LibraryForms ==
    { "std::path::PathBuf::from(\".\")", "uuid::Uuid::new_v4()",
      "url::Url::parse(\"https://example.com\").unwrap()", "chrono::Utc::now()" }

\* C26: without an override for the signature, a library form is produced
\* only for a signature that is one of the library types; a wrapper or a
\* reference around such a type is resolved by the rule of its own shape.
C26_ClosedLibrarySet ==
    (Called /\ ~has_type_mapping(config.type_mappings, trim(cur.sig))) =>
        (cur.out \in LibraryForms => IsLibraryType(trim(cur.sig)))

(***************************************************************************)
(* Further properties of a generation run (Spec).                          *)
(***************************************************************************)
\* C27: generate_with_config returns; it does not panic, whatever the policy
C27_NeverPanics == pc # "panicked"

\* the entry is a .rs file outside the infrastructure directories that no
\* skip pattern matches and that the walk yields
Eligible(e) ==
    /\ ~e.is_dir
    /\ extension(e.rel) = Some("rs")
    /\ ~UnderInfrastructure(e.rel)
    /\ ~(config.respect_gitignore /\ e.gitignored)
    /\ \A i \in 1..Len(config.skip_patterns) :
          ~pattern_matches(config.skip_patterns[i], EntryPath(project_path, e.rel))

\* C28: once the analysis loop is over every eligible file has been
\* analyzed, however the root is spelled
C28_RootSpellingIrrelevant ==
    (InPipeline /\ pc # "analyze") =>
        \A k \in 1..Len(tree) :
            Eligible(tree[k]) => EntryPath(project_path, tree[k].rel) \in processed_files


\* a warning was written for the path
Warned(path_str) == \E j \in 1..Len(warnings) : contains(warnings[j], path_str)

\* C24: once the analysis loop is over, every entry the walk failed on and
\* every file the loop could not read has its warning
C24_WalkFailurePolicy ==
    (InPipeline /\ pc # "analyze") =>
        \A k \in 1..Len(tree) :
            (\/ ~tree[k].walkable
             \/ /\ EntryPath(project_path, tree[k].rel) \in processed_files
                /\ ~tree[k].readable)
            => Warned(EntryPath(project_path, tree[k].rel))
(***************************************************************************)
(* param_value followed call by call (PvSpec).  pv.arg is the argument of  *)
(* the innermost call, pv.frames the rules of the callers waiting for its  *)
(* value, outermost first, pv.out the value once the innermost call has    *)
(* returned.                                                               *)
(***************************************************************************)
NoRecursion == [some |-> FALSE, rule |-> "", arg |-> ""]

Recursion(rule, arg) == [some |-> TRUE, rule |-> rule, arg |-> arg]

PrimitiveNames == {"String", "&str", "usize", "u32", "u64", "i32", "i64", "bool", "()"}

\* the recursive call param_value(typ) makes: the rule that makes it and its
\* argument
recursive_call(typ) ==
    LET t == trim(typ)
    IN  IF t \in PrimitiveNames THEN NoRecursion
        ELSE IF strip_generic(t, "Option").some
            THEN Recursion("Option", strip_generic(t, "Option").val)
        ELSE IF strip_generic(t, "Result").some
            THEN Recursion("Result", trim(split(strip_generic(t, "Result").val, ",")[1]))
        ELSE IF strip_generic(t, "Vec").some
            THEN Recursion("Vec", strip_generic(t, "Vec").val)
        ELSE IF starts_with(t, "&")
            THEN Recursion("&", trim(trim_start_matches(t, "&")))
        ELSE NoRecursion

\* the final fallback returning the empty expression
base_value_empty_fallback(typ) ==
    LET t == trim(typ)
    IN  IF t = "String" THEN "\"test\".to_string()"
        ELSE IF t = "&str" THEN "\"test\""
        ELSE IF t \in {"usize", "u32", "u64", "i32", "i64"} THEN "0"
        ELSE IF t = "bool" THEN "false"
        ELSE IF t = "()" THEN "()"
        ELSE IF Len(t) > 0 /\ is_uppercase(CharAt(t, 1)) THEN t \o "::default()"
        ELSE ""

\* the value of a call that makes no recursive call
base_value(typ) ==
    LET t == trim(typ)
    IN  IF t = "String" THEN "\"test\".to_string()"
        ELSE IF t = "&str" THEN "\"test\""
        ELSE IF t \in {"usize", "u32", "u64", "i32", "i64"} THEN "0"
        ELSE IF t = "bool" THEN "false"
        ELSE IF t = "()" THEN "()"
        ELSE IF Len(t) > 0 /\ is_uppercase(CharAt(t, 1)) THEN t \o "::default()"
        ELSE "Default::default()"

\* the format! of the rule around the value of its recursive call
wrap_value(rule, val) ==
    IF rule = "Option" THEN "Some(" \o val \o ")"
    ELSE IF rule = "Result" THEN "Ok(" \o val \o ")"
    ELSE IF rule = "Vec" THEN "vec![" \o val \o "]"
    ELSE "{ let tmp = " \o val \o "; &tmp }"

\* signatures no extracted parameter has, that a caller can still pass
EdgeSignatures ==
    { "", " ", "&", "& ", "&&", "Option<>", "Vec<>", "Result<>", "Result<,>", "Option<", ">",
      "Option<Vec<&>>", " Option< u32 > ", "&Vec<Option<String>>", "Result<Vec<()>, E>",
      "Vec<Option<Result<&mut T, E>>>", "option<u32>" }

ParamInputs == TypeSignatures \cup EdgeSignatures

PvInit ==
    /\ config = DefaultConfig(NoMappings)
    /\ intern_pool = NoMappings
    /\ arcs = NoMappings
    /\ probe = NoCall
    /\ cur = NoCall
    /\ ncalls = 0
    /\ pc = "idle"
    /\ project_path = ""
    /\ tree = <<>>
    /\ walker = <<>>
    /\ processed_files = {}
    /\ functions = <<>>
    /\ chunk_state = <<>>
    /\ chunk_out = <<>>
    /\ completed = <<>>
    /\ results = <<>>
    /\ test_files = <<>>
    /\ written = 0
    /\ disk = NoMappings
    /\ warnings = <<>>
    /\ temp = None
    /\ dirs = {}
    /\ history = <<>>
    /\ config_file = NoConfigFile
    /\ \E typ \in ParamInputs :
          pv = [input |-> typ, arg |-> typ, frames |-> <<>>, calls |-> 1, out |-> None]

\* the innermost call reaches a wrapper or reference rule and calls itself
PvRecurse ==
    /\ pv.calls >= 1
    /\ ~pv.out.some
    /\ \E r \in {recursive_call(pv.arg)} :
          /\ r.some
          /\ pv' = [pv EXCEPT !.arg = r.arg, !.frames = Append(@, r.rule), !.calls = @ + 1]
    /\ UNCHANGED <<config, intern_pool, arcs, synth_vars, run_vars, fs_vars, config_file>>

\* the innermost call returns without calling itself
PvReturnBase ==
    /\ pv.calls >= 1
    /\ ~pv.out.some
    /\ \E r \in {recursive_call(pv.arg)} :
          /\ ~r.some
          /\ pv' = [pv EXCEPT !.out = Some(base_value(pv.arg))]
    /\ UNCHANGED <<config, intern_pool, arcs, synth_vars, run_vars, fs_vars, config_file>>

\* a waiting caller formats the value it got and returns
PvReturnWrapped ==
    /\ pv.out.some
    /\ pv.frames # <<>>
    /\ pv' = [pv EXCEPT !.out = Some(wrap_value(pv.frames[Len(pv.frames)], pv.out.val)),
                        !.frames = SubSeq(@, 1, Len(@) - 1)]
    /\ UNCHANGED <<config, intern_pool, arcs, synth_vars, run_vars, fs_vars, config_file>>

PvNext == PvRecurse \/ PvReturnBase \/ PvReturnWrapped

\* the call runs on one thread that nothing blocks
PvSpec == PvInit /\ [][PvNext]_vars /\ WF_vars(PvNext)

\* the outermost call has returned
PvReturned == pv.out.some /\ pv.frames = <<>>

\* no rule of param_value but the final fallback applies to the text
FallsThrough(t) ==
    /\ t \notin PrimitiveNames
    /\ ~recursive_call(t).some
    /\ ~(Len(t) > 0 /\ is_uppercase(CharAt(t, 1)))

\* C30: param_value is total and terminates: every recursive call is made on
\* a strictly shorter string, the outermost call returns, the value returned
\* is a non-empty expression (the one the recursive definition gives), and a
\* text no rule matches is given Default::default().
C30_TotalAndTerminates ==
    /\ [](pv.out.some => Len(pv.out.val) > 0)
    /\ [](PvReturned => pv.out.val = param_value(pv.input))
    /\ []((pv.out.some /\ Len(pv.frames) = pv.calls - 1 /\ FallsThrough(trim(pv.arg)))
             => pv.out.val = "Default::default()")
    /\ [][pv'.calls > pv.calls => Len(pv'.arg) < Len(pv.arg)]_vars
    /\ <>PvReturned

\* three nested rules around the empty text have been resolved
C30_Witness ==
    /\ pv.input = "Option<Vec<&>>"
    /\ pv.calls = 4
    /\ PvReturned
    /\ pv.out.val = "Some(vec![{ let tmp = Default::default(); &tmp }])"

(***************************************************************************)
(* config.rs: Config::load_from_file (LoadSpec).  A configuration file is  *)
(* [ext, readable, well_formed, flat, sections]: its extension, whether it *)
(* can be read and is syntactically a TOML / YAML document, its top-level  *)
(* scalar keys and its tables, every value with its kind.  A loaded Config *)
(* has the sections and the flat fields the pipeline reads.                *)
(***************************************************************************)
\* a value of the document with its kind: "str", "bool", "int", "list" or "table"
Value(kind, v) == [kind |-> kind, v |-> v]

\* the field types of LegacyConfig
LegacyKinds ==
    ("output_dir" :> "str") @@ ("skip_functions" :> "list") @@ ("type_mappings" :> "table")
    @@ ("include_private" :> "bool") @@ ("parallel" :> "bool")
    @@ ("parallel_chunk_size" :> "int") @@ ("respect_gitignore" :> "bool")
    @@ ("skip_patterns" :> "list")

\* the field types of GenerationConfig, TypeConfig, PerformanceConfig and
\* FilesystemConfig
SectionKinds ==
    ("generation" :> (("output_dir" :> "str") @@ ("skip_functions" :> "list")
                      @@ ("include_private" :> "bool")))
    @@ ("types" :> ("mappings" :> "table"))
    @@ ("performance" :> (("parallel" :> "bool") @@ ("parallel_chunk_size" :> "int")))
    @@ ("filesystem" :> (("respect_gitignore" :> "bool") @@ ("skip_patterns" :> "list")))

\* serde: a key the struct has must hold a value of the field's type; a key
\* the struct has not is ignored (no deny_unknown_fields)
well_typed(table, kinds) ==
    \A k \in DOMAIN table \cap DOMAIN kinds : table[k].kind = kinds[k]

\* #[serde(default)]: the value of the key, or the default of the field
field_or(table, k, default) == IF k \in DOMAIN table THEN table[k].v ELSE default

\* TypeConfig::default().mappings
DefaultTypeMappings ==
    ("PathBuf" :> "std::path::PathBuf::from(\".\")") @@ ("Uuid" :> "uuid::Uuid::new_v4()")

\* toml::from_str::<LegacyConfig> / serde_yaml::from_str::<LegacyConfig>
from_str_legacy(file) ==
    [ ok |-> file.well_formed /\ well_typed(file.flat, LegacyKinds),
      val |-> [ k \in DOMAIN LegacyKinds |->
                  field_or(file.flat, k, DefaultConfig(NoMappings)[k]) ] ]

\* impl From<LegacyConfig> for Config
from_legacy(legacy) ==
    [ generation |-> [ output_dir |-> legacy.output_dir,
                       skip_functions |-> legacy.skip_functions,
                       include_private |-> legacy.include_private ],
      types |-> [mappings |-> legacy.type_mappings],
      performance |-> [ parallel |-> legacy.parallel,
                        parallel_chunk_size |-> legacy.parallel_chunk_size ],
      filesystem |-> [ respect_gitignore |-> legacy.respect_gitignore,
                       skip_patterns |-> legacy.skip_patterns ],
      output_dir |-> legacy.output_dir,
      skip_functions |-> legacy.skip_functions,
      type_mappings |-> legacy.type_mappings,
      include_private |-> legacy.include_private,
      parallel |-> legacy.parallel,
      parallel_chunk_size |-> legacy.parallel_chunk_size,
      respect_gitignore |-> legacy.respect_gitignore,
      skip_patterns |-> legacy.skip_patterns ]

\* the table of the file named s, empty when the file has none
section(file, s) == IF s \in DOMAIN file.sections THEN file.sections[s] ELSE NoMappings

\* toml::from_str::<Config> / serde_yaml::from_str::<Config>: the sections
\* are read, the flat fields are #[serde(skip)] and take Config::default's
from_str_config(file) ==
    [ ok |-> /\ file.well_formed
             /\ \A s \in DOMAIN file.sections \cap DOMAIN SectionKinds :
                   well_typed(file.sections[s], SectionKinds[s]),
      val |-> [ generation |->
                  [ output_dir |-> field_or(section(file, "generation"), "output_dir", "tests"),
                    skip_functions |->
                        field_or(section(file, "generation"), "skip_functions", <<>>),
                    include_private |->
                        field_or(section(file, "generation"), "include_private", FALSE) ],
                types |->
                  [mappings |-> field_or(section(file, "types"), "mappings",
                                         DefaultTypeMappings)],
                performance |->
                  [ parallel |-> field_or(section(file, "performance"), "parallel", TRUE),
                    parallel_chunk_size |->
                        field_or(section(file, "performance"), "parallel_chunk_size", 25) ],
                filesystem |->
                  [ respect_gitignore |->
                        field_or(section(file, "filesystem"), "respect_gitignore", TRUE),
                    skip_patterns |->
                        field_or(section(file, "filesystem"), "skip_patterns",
                                 DefaultConfig(NoMappings).skip_patterns) ],
                output_dir |-> "tests",
                skip_functions |-> <<>>,
                type_mappings |-> NoMappings,
                include_private |-> FALSE,
                parallel |-> TRUE,
                parallel_chunk_size |-> 25,
                respect_gitignore |-> TRUE,
                skip_patterns |-> DefaultConfig(NoMappings).skip_patterns ] ]

\* load_toml_with_fallback / load_yaml_with_fallback: the legacy format is
\* tried first, the hierarchical one when it fails
load_with_fallback(file) ==
    IF from_str_legacy(file).ok
    THEN [ok |-> TRUE, val |-> from_legacy(from_str_legacy(file).val)]
    ELSE from_str_config(file)

\* Config::sync_legacy_fields
sync_legacy_fields(c) ==
    [ c EXCEPT !.output_dir = c.generation.output_dir,
               !.skip_functions = c.generation.skip_functions,
               !.type_mappings = c.types.mappings,
               !.include_private = c.generation.include_private,
               !.parallel = c.performance.parallel,
               !.parallel_chunk_size = c.performance.parallel_chunk_size,
               !.respect_gitignore = c.filesystem.respect_gitignore,
               !.skip_patterns = c.filesystem.skip_patterns ]

\* a map holding k when present
Key(present, k, value) == IF present THEN k :> value ELSE NoMappings

\* the files: the same settings written as top-level keys (legacy) or under
\* their sections (hierarchical), each setting given or left out, possibly
\* with a top-level key of the wrong type
ConfigFiles ==
    { [ ext |-> ext, readable |-> rd, well_formed |-> wf,
        flat |->
          (IF hier THEN NoMappings
           ELSE Key(out, "output_dir", Value("str", "generated"))
                @@ Key(ip, "include_private", Value("bool", TRUE))
                @@ Key(par, "parallel", Value("bool", FALSE))
                @@ Key(n > 0, "parallel_chunk_size", Value("int", n))
                @@ Key(gi, "respect_gitignore", Value("bool", FALSE)))
          @@ Key(bad, "skip_functions", Value("str", "test_")),
        sections |->
          IF hier
          THEN Key(out \/ ip, "generation",
                   Key(out, "output_dir", Value("str", "generated"))
                   @@ Key(ip, "include_private", Value("bool", TRUE)))
               @@ Key(par \/ n > 0, "performance",
                      Key(par, "parallel", Value("bool", FALSE))
                      @@ Key(n > 0, "parallel_chunk_size", Value("int", n)))
               @@ Key(gi, "filesystem", Key(gi, "respect_gitignore", Value("bool", FALSE)))
               @@ Key(out, "types", "mappings" :> Value("table", "Config" :> "Config::load()"))
          ELSE NoMappings ]
      : ext \in {"toml", "yaml", "yml", "json"}, rd \in BOOLEAN, wf \in BOOLEAN,
        hier \in BOOLEAN, out \in BOOLEAN, ip \in BOOLEAN, par \in BOOLEAN,
        n \in {0, MaxChunk}, gi \in BOOLEAN, bad \in BOOLEAN }

LoadInit ==
    /\ config_file \in {f \in ConfigFiles : (f.readable /\ f.well_formed) \/ f.flat = NoMappings}
    /\ config = DefaultConfig(NoMappings)
    /\ pc = "load"
    /\ intern_pool = NoMappings
    /\ arcs = NoMappings
    /\ probe = NoCall
    /\ cur = NoCall
    /\ ncalls = 0
    /\ project_path = ""
    /\ tree = <<>>
    /\ walker = <<>>
    /\ processed_files = {}
    /\ functions = <<>>
    /\ chunk_state = <<>>
    /\ chunk_out = <<>>
    /\ completed = <<>>
    /\ results = <<>>
    /\ test_files = <<>>
    /\ written = 0
    /\ disk = NoMappings
    /\ warnings = <<>>
    /\ temp = None
    /\ dirs = {}
    /\ history = <<>>
    /\ pv = NoParamValue

\* Config::load_from_file returns the Config
LoadFromFile ==
    /\ pc = "load"
    /\ config_file.readable
    /\ config_file.ext \in {"toml", "yaml", "yml"}
    /\ load_with_fallback(config_file).ok
    /\ config' = sync_legacy_fields(load_with_fallback(config_file).val)
    /\ pc' = "loaded"
    /\ UNCHANGED <<intern_pool, arcs, synth_vars, project_path, tree, walker, processed_files,
                   functions, chunk_state, chunk_out, completed, results, test_files,
                   written, disk, warnings, fs_vars, unit_vars>>

\* Config::load_from_file returns FileRead or InvalidConfig
LoadFails ==
    /\ pc = "load"
    /\ \/ ~config_file.readable
       \/ config_file.ext \notin {"toml", "yaml", "yml"}
       \/ ~load_with_fallback(config_file).ok
    /\ pc' = "load_failed"
    /\ UNCHANGED <<config, intern_pool, arcs, synth_vars, project_path, tree, walker,
                   processed_files, functions, chunk_state, chunk_out, completed, results,
                   test_files, written, disk, warnings, fs_vars, unit_vars>>

LoadNext == LoadFromFile \/ LoadFails

LoadSpec == LoadInit /\ [][LoadNext]_vars

\* the file is written in the hierarchical format only
Hierarchical(file) == file.flat = NoMappings /\ file.sections # NoMappings

\* the flat field of the Config where the pipeline reads the setting
Effective(c, s, k) == IF s = "types" THEN c.type_mappings ELSE c[k]

\* C25: after load_from_file on a file in the hierarchical format, every
\* setting the file gives is the value of the effective field
C25_HierarchicalFileIsRead ==
    (pc = "loaded" /\ Hierarchical(config_file)) =>
        \A s \in DOMAIN config_file.sections :
            \A k \in DOMAIN config_file.sections[s] :
                Effective(config, s, k) = config_file.sections[s][k].v

(***************************************************************************)
(* The run on the filesystem, write by write, the walk for the V sources   *)
(* and the run repeated on the same project (FsSpec).  disk holds the      *)
(* files the runs created, the temporary file of a write in progress       *)
(* included; a run that returns appends its TestFiles to history.          *)
(***************************************************************************)
\* length of the match of `[\w\s\[\]&]*`, the return type, s starts with
RECURSIVE v_return_len(_)
v_return_len(s) ==
    IF Len(s) > 0 /\ CharAt(s, 1) \in IdentChars \cup {" ", "\t", "\n", "[", "]", "&"}
    THEN 1 + v_return_len(Tail(s))
    ELSE 0

\* the match of `\s+(\w+)\s*\((.*?)\)\s*([\w\s\[\]&]*)` on the text after an
\* "fn": ws is the text after the white space, n the length of the name,
\* tail the text after the name and its white space; rest is the text the
\* search for the next match starts at
v_signature(after, ws, n, tail) ==
    IF /\ Len(ws) < Len(after)
       /\ n > 0
       /\ starts_with(tail, "(")
       /\ find(tail, ")") > 0
       /\ (find(tail, "\n") = 0 \/ find(tail, ")") < find(tail, "\n"))
    THEN [some |-> TRUE, name |-> SubSeq(ws, 1, n),
          rest |-> SubSeq(tail, find(tail, ")") + 1
                                + v_return_len(SubSeq(tail, find(tail, ")") + 1, Len(tail))),
                          Len(tail))]
    ELSE [some |-> FALSE, name |-> "", rest |-> after]

v_match(after) ==
    v_signature(after, trim_start(after), ident_len(trim_start(after)),
                trim_start(SubSeq(trim_start(after), ident_len(trim_start(after)) + 1,
                                  Len(trim_start(after)))))

\* VParser::parse_function_signatures: the names of the captures
RECURSIVE parse_function_signatures(_)
parse_function_signatures(content) ==
    IF find(content, "fn") = 0 THEN <<>>
    ELSE (IF v_match(SubSeq(content, find(content, "fn") + 2, Len(content))).some
          THEN <<v_match(SubSeq(content, find(content, "fn") + 2, Len(content))).name>>
          ELSE <<>>)
         \o parse_function_signatures(
                v_match(SubSeq(content, find(content, "fn") + 2, Len(content))).rest)

\* VParser::generate_test
generate_test(name) ==
    "fn test_" \o name \o "() {\n    // TODO: Implement test for " \o name
    \o "\n    assert true\n}\n"

\* the content of the V test file of the functions
RECURSIVE v_test_content(_)
v_test_content(names) ==
    IF names = <<>> THEN "module main\n\n"
    ELSE v_test_content(SubSeq(names, 1, Len(names) - 1))
         \o generate_test(names[Len(names)]) \o "\n"

\* NamedTempFile::new_in: a file of a fresh name in the directory
temp_path(target_dir) == PathJoin(target_dir, ".tmpAAAAAA")

\* a rename that appends to what the target holds
persist_appending(files, tmp, path_str) ==
    [r \in (DOMAIN files \ {tmp}) \cup {path_str} |->
        IF r = path_str
        THEN (IF path_str \in DOMAIN files THEN files[path_str] ELSE "") \o files[tmp]
        ELSE files[r]]

\* NamedTempFile::persist: rename(2) of the temporary file over the target
persist(files, tmp, path_str) ==
    [r \in (DOMAIN files \ {tmp}) \cup {path_str} |->
        IF r = path_str THEN files[tmp] ELSE files[r]]

VFile(rel, text) == [File(rel, <<>>) EXCEPT !.text = text]

\* two source files, the first with a private function; tests/ exists
PairTree ==
    << Dir(""), Dir("src"),
       File("src/a.rs", << Fn("pub", "alpha", <<>>, "", FALSE),
                           Fn("", "beta", <<Typed("n", "u32")>>, "bool", FALSE) >>),
       File("src/b.rs", <<Fn("pub", "gamma", <<Typed("flag", "bool")>>, "String", FALSE)>>),
       Dir("tests") >>

\* V sources next to a Rust one: one with two functions, one with a method
\* only, and a test file that exists already
VlangTree ==
    << Dir(""), Dir("src"),
       File("src/lib.rs", <<Fn("pub", "version", <<>>, "u32", FALSE)>>),
       VFile("src/main.v", "fn add(a int, b int) int { return a + b }\n\nfn main() {\n}\n"),
       VFile("src/point.v", "fn (p Point) norm() int { return 0 }\n"),
       VFile("src/point_test.v", "fn test_norm() {\n    assert true\n}\n") >>

\* the first V source cannot be read
VlangLockedTree ==
    << Dir(""), [VFile("a.v", "") EXCEPT !.readable = FALSE], VFile("b.v", "fn f() {\n}\n") >>

FsTrees == {GreetTree, PairTree, VlangTree, VlangLockedTree}

FsInit ==
    /\ config \in { [DefaultConfig(NoMappings) EXCEPT !.parallel = FALSE,
                                                      !.include_private = ip]
                    : ip \in BOOLEAN }
    /\ project_path \in Roots
    /\ tree \in FsTrees
    /\ intern_pool = NoMappings
    /\ arcs = NoMappings
    /\ probe = NoCall
    /\ cur = NoCall
    /\ ncalls = 0
    /\ pc = "start"
    /\ walker = <<>>
    /\ processed_files = {}
    /\ functions = <<>>
    /\ chunk_state = <<>>
    /\ chunk_out = <<>>
    /\ completed = <<>>
    /\ results = <<>>
    /\ test_files = <<>>
    /\ written = 0
    /\ disk = NoMappings
    /\ warnings = <<>>
    /\ temp = None
    /\ dirs = {}
    /\ history = <<>>
    /\ config_file = NoConfigFile
    /\ pv = NoParamValue

\* what a step of the write loop and of the V walk leaves alone
gen_vars ==
    <<config, intern_pool, arcs, synth_vars, project_path, tree, processed_files, functions,
      chunk_state, chunk_out, completed, results, test_files, warnings, history, unit_vars>>

\* the TestFile the write loop is at
Writing == pc = "write" /\ written < Len(test_files)

\* write_test_file_atomic: create_dir_all on a missing parent
CreateParentDirs ==
    /\ Writing
    /\ ~temp.some
    /\ ~dir_exists(parent(test_files[written + 1].path))
    /\ dirs' = dirs \cup {parent(test_files[written + 1].path)}
    /\ UNCHANGED <<gen_vars, pc, walker, written, disk, temp>>

\* write_test_file_atomic: NamedTempFile::new_in(target_dir)
CreateTempFile ==
    /\ Writing
    /\ ~temp.some
    /\ dir_exists(parent(test_files[written + 1].path))
    /\ temp' = Some(temp_path(parent(test_files[written + 1].path)))
    /\ disk' = (temp'.val :> "") @@ disk
    /\ UNCHANGED <<gen_vars, pc, walker, written, dirs>>

\* write_all: the content reaches the temporary file in two writes
WriteTempFile ==
    /\ Writing
    /\ temp.some
    /\ disk[temp.val] # test_files[written + 1].content
    /\ disk' = [disk EXCEPT ![temp.val] =
                  IF @ = ""
                  THEN SubSeq(test_files[written + 1].content, 1,
                              Len(test_files[written + 1].content) \div 2)
                  ELSE test_files[written + 1].content]
    /\ UNCHANGED <<gen_vars, pc, walker, written, temp, dirs>>

\* temp_file.persist(path), and the loop moves on
PersistTempFile ==
    /\ Writing
    /\ temp.some
    /\ disk[temp.val] = test_files[written + 1].content
    /\ disk' = persist(disk, temp.val, test_files[written + 1].path)
    /\ temp' = None
    /\ written' = written + 1
    /\ UNCHANGED <<gen_vars, pc, walker, dirs>>

\* an I/O error at any of the four calls: the NamedTempFile is dropped, which
\* removes it, and `?` returns the error from the run
WriteFails ==
    /\ Writing
    /\ disk' = IF temp.some THEN [r \in DOMAIN disk \ {temp.val} |-> disk[r]] ELSE disk
    /\ temp' = None
    /\ pc' = "failed"
    /\ UNCHANGED <<gen_vars, walker, written, dirs>>

\* the process is killed during the write: nothing is cleaned up
ProcessKilled ==
    /\ Writing
    /\ pc' = "killed"
    /\ UNCHANGED <<gen_vars, walker, written, disk, temp, dirs>>

\* the write loop is over: WalkDir::new(project_path) for the V sources
StartVWalk ==
    /\ pc = "write"
    /\ written = Len(test_files)
    /\ walker' = walk_paths(FALSE)
    /\ pc' = "vwalk"
    /\ UNCHANGED <<gen_vars, written, disk, temp, dirs>>

\* the V source at path_str is to be processed
is_v_source(path_str) ==
    extension(path_str) = Some("v") /\ ~ends_with(file_name(path_str), "_test.v")

\* one iteration of the V walk: the test file is written next to the source
\* with fs::write, and a source that cannot be read ends the run with `?`
VisitVEntry ==
    /\ pc = "vwalk"
    /\ walker # <<>>
    /\ walker' = Tail(walker)
    /\ IF ~is_v_source(Head(walker))
       THEN UNCHANGED <<pc, disk>>
       ELSE IF ~Lookup(Head(walker)).readable
       THEN pc' = "failed" /\ UNCHANGED disk
       ELSE IF parse_function_signatures(Lookup(Head(walker)).text) = <<>>
       THEN UNCHANGED <<pc, disk>>
       ELSE /\ disk' = (PathJoin(parent(Head(walker)), file_stem(Head(walker)) \o "_test.v")
                          :> v_test_content(
                                 parse_function_signatures(Lookup(Head(walker)).text)))
                       @@ disk
            /\ UNCHANGED pc
    /\ UNCHANGED <<gen_vars, written, temp, dirs>>

\* generate_tests_for_project_with_config returns Ok(())
ReturnOk ==
    /\ pc = "vwalk"
    /\ walker = <<>>
    /\ pc' = "done"
    /\ history' = Append(history, test_files)
    /\ UNCHANGED <<config, intern_pool, arcs, synth_vars, project_path, tree, walker,
                   processed_files, functions, chunk_state, chunk_out, completed, results,
                   test_files, written, disk, warnings, temp, dirs, unit_vars>>

\* the tool is run again on the project, as a new process
RunAgain ==
    /\ pc = "done"
    /\ Len(history) < MaxRuns
    /\ pc' = "start"
    /\ intern_pool' = NoMappings
    /\ arcs' = NoMappings
    /\ processed_files' = {}
    /\ functions' = <<>>
    /\ results' = <<>>
    /\ test_files' = <<>>
    /\ written' = 0
    /\ warnings' = <<>>
    /\ UNCHANGED <<config, synth_vars, project_path, tree, walker, chunk_state, chunk_out,
                   completed, disk, temp, dirs, history, unit_vars>>

FsNext ==
    \/ Walk
    \/ AnalyzeEntry
    \/ RetainFunctions
    \/ GenerateSequential
    \/ PartitionResults
    \/ CreateParentDirs
    \/ CreateTempFile
    \/ WriteTempFile
    \/ PersistTempFile
    \/ WriteFails
    \/ ProcessKilled
    \/ StartVWalk
    \/ VisitVEntry
    \/ ReturnOk
    \/ RunAgain

FsSpec == FsInit /\ [][FsNext]_vars


(***************************************************************************)
(* Properties of the writes and of repeated runs (FsSpec)                  *)
(***************************************************************************)
\* what the path holds in the files: its content, or None when it is absent
Held(files, path_str) ==
    IF path_str \in DOMAIN files THEN Some(files[path_str]) ELSE None

\* C21: atomic replace.  At every step of write_test_file_atomic, the steps
\* at which it fails or the process is killed included, the target path
\* holds what it held before the step (or stays absent) or the complete
\* test.content, never a part of it, and no step changes the path of another
\* TestFile; at the step that completes the write the target holds exactly
\* test.content, its parent directory exists and the temporary file is gone.
C21_AtomicReplace ==
    [][Writing =>
         /\ \A i \in 1..Len(test_files) :
               \/ Held(disk', test_files[i].path) = Held(disk, test_files[i].path)
               \/ /\ test_files[i].path = test_files[written + 1].path
                  /\ Held(disk', test_files[i].path) = Some(test_files[written + 1].content)
         /\ written' = written + 1 =>
               /\ Held(disk', test_files[written + 1].path)
                    = Some(test_files[written + 1].content)
               /\ parent(test_files[written + 1].path) \in dirs
                  \/ dir_exists(parent(test_files[written + 1].path))
               /\ temp.val \notin DOMAIN disk'
               /\ ~temp'.some]_vars

\* a write is half-way: the temporary file holds a part of the new content
\* while the target still holds an older, different content
C21_Witness ==
    /\ Writing
    /\ temp.some
    /\ disk[temp.val] # ""
    /\ disk[temp.val] # test_files[written + 1].content
    /\ test_files[written + 1].path \in DOMAIN disk
    /\ disk[test_files[written + 1].path] # test_files[written + 1].content
    /\ disk[test_files[written + 1].path] # disk[temp.val]


\* the test file the V walk writes for the source at path_str
v_test_path(path_str) == PathJoin(parent(path_str), file_stem(path_str) \o "_test.v")

\* C22: failures are local.  When the run has failed on one file (a TestFile
\* that could not be written, or a .v source that could not be read), every
\* other TestFile of the run is on disk and every .v source that can be read
\* and declares a function has its test file.
C22_FailuresAreLocal ==
    pc = "failed" =>
        /\ \A i \in 1..Len(test_files) :
              test_files[i].path # test_files[written + 1].path
                 => test_files[i].path \in DOMAIN disk
        /\ \A k \in 1..Len(tree) :
              (/\ ~tree[k].is_dir
               /\ is_v_source(EntryPath(project_path, tree[k].rel))
               /\ tree[k].readable
               /\ parse_function_signatures(tree[k].text) # <<>>)
                 => v_test_path(EntryPath(project_path, tree[k].rel)) \in DOMAIN disk

\* C29: re-running is idempotent.  Every run after the first returns the
\* TestFiles of the first, the same paths with the same content, and no
\* function of a later run was extracted from a file an earlier run wrote.
C29_Idempotent ==
    /\ \A r \in 2..Len(history) : Range(history[r]) = Range(history[1])
    /\ \A r \in 1..Len(history) : \A i \in 1..Len(functions) : \A j \in 1..Len(history[r]) :
          functions[i].file # history[r][j].path

====
